---- MODULE Spec2Model ----
(***************************************************************************)
(* Desktop chat front-end: the chat-input message queue with interruption *)
(* handling (ChatInput), the global find-event manager                    *)
(* (SearchEventManager) with the SearchView that registers with it, the   *)
(* highlight scheduling of SearchView, and the toast provider with its    *)
(* auto-hide timers (ToastProvider / ToastItem).                          *)
(*                                                                         *)
(* React is modelled at the granularity of one event: an action is the    *)
(* handler of the event followed by the re-render and the effects that    *)
(* the handler's state changes cause.  Props owned by the parent          *)
(* (chatState, handleSubmit, onStop) are the environment: handleSubmit    *)
(* and onStop are recorded, chatState changes at any time.                *)
(***************************************************************************)
EXTENDS Integers, Sequences, FiniteSets, TLC

(***************************************************************************)
(* Bounds                                                                  *)
(***************************************************************************)
MaxMsgs == 2        \* queued messages created in one run
MaxSubmits == 2     \* recorded handleSubmit calls in one run
MaxTimers == 1      \* outstanding stop-and-send restore timers
NumViews == 2       \* SearchView instances
MaxVersion == 1     \* times a SearchView's handlers change identity
MaxPending == 2     \* outstanding highlight timers
MaxMatches == 2     \* matches a highlight pass can find
MaxToasts == 1      \* toasts created in one run
MaxLen == 2         \* characters in the text area
MaxSelected == 1    \* files attached through the mention popover
NumExtensions == 2  \* entries of extensionsList while the user edits
NumFiles == 2       \* files listFiles returns while the user edits
MaxPatternLen == 2  \* characters of a fuzzyMatch pattern
MaxQueryLen == 1    \* characters of the popover's query
MaxLoads == 3       \* calls of loadCurrentChat in one run
MaxTextLen == 3     \* characters of a fuzzyMatch text

NULL == "<null>"

(***************************************************************************)
(* ChatInput: state                                                        *)
(***************************************************************************)
VARIABLES
    isLoading,          \* chatState !== ChatState.Idle (prop)
    wasLoadingRef,      \* wasLoadingRef.current
    queuedMessages,     \* sequence of [id, content]
    queuePausedRef,     \* queuePausedRef.current
    lastInterruption,   \* NULL or the matched text
    displayValue,       \* text of the input
    submitted,          \* calls of handleSubmit, in order: [id, content, via, loading]
    stopCalled,         \* the last event called onStop
    nextId,             \* next fresh message id
    restoreTimers,      \* pending setTimeout(100) of handleStopAndSend: wasPaused values
    touched,            \* ids the user removed, reordered or stop-and-sent
    interruptionIds,    \* ids queued by the interruption branch
    lastOp              \* what the last event was and what it observed

chatVars == <<isLoading, wasLoadingRef, queuedMessages, queuePausedRef,
              lastInterruption, displayValue, submitted, stopCalled, nextId,
              restoreTimers, touched, interruptionIds, lastOp>>

(***************************************************************************)
(* SearchEventManager and the SearchViews registered with it: state       *)
(***************************************************************************)
VARIABLES
    activeSearchView,   \* 0 (null) or the instance registered last
    handlers,           \* event -> [owner, version], owner 0: no handler
    listenersAttached,
    listeners,          \* event -> number of manager listeners on window.electron
    mounted,            \* SearchViews whose registration effect has run
    handlerVersion,     \* view -> identity of its current callbacks
    lastDispatch        \* the last find event: [event, invocations, owner]

eventVars == <<activeSearchView, handlers, listenersAttached, listeners, mounted,
               handlerVersion, lastDispatch>>

(***************************************************************************)
(* SearchView highlight scheduling: state                                  *)
(***************************************************************************)
VARIABLES
    lastSearchRef,          \* [term, caseSensitive]
    highlighterRef,         \* a SearchHighlighter exists (FALSE: null)
    internalSearchResults,  \* [currentIndex, count], count 0: null
    pendingHighlights,      \* timers of debounce(performHighlight, 150)
    lastPass,               \* the last highlight pass that ran
    currentMatch,           \* index last given to setCurrentMatch of
                            \* highlighterRef.current, -1: none
    lastNavigate,           \* the last handleNavigate: [direction, from]
    highlighterSearch       \* [term, caseSensitive] captured by the callback
                            \* given to highlighterRef.current

highlightVars == <<lastSearchRef, highlighterRef, internalSearchResults,
                   pendingHighlights, lastPass, currentMatch, lastNavigate,
                   highlighterSearch>>

(***************************************************************************)
(* ToastProvider and its ToastItems: state                                 *)
(***************************************************************************)
VARIABLES
    toasts,         \* sequence of [id, state, duration, isExiting, since, updates]
    hideTimers,     \* auto-hide timeouts of the ToastItems: set of [id, remaining]
    exitTimers,     \* exit-animation timeouts: sequence of [id, remaining]
    nextToastId,
    lastRemoval     \* the last toast a timer removed

toastVars == <<toasts, hideTimers, exitTimers, nextToastId, lastRemoval>>

(***************************************************************************)
(* Mention detection of ChatInput and ExtensionMentionPopover: state      *)
(***************************************************************************)
VARIABLES
    textAreaValue,      \* displayValue as a sequence of characters
    cursorPosition,     \* selectionStart of the text area
    mentionPopover,     \* [isOpen, query, mentionStart, selectedIndex]
    selectedFiles,      \* paths attached to the message
    extensionsList,     \* useConfig().extensionsList
    allFiles,           \* files loaded by the popover
    isLoadingFiles,
    lastMention         \* what the last mention event was and what it observed

mentionVars == <<textAreaValue, cursorPosition, mentionPopover, selectedFiles,
                 extensionsList, allFiles, isLoadingFiles, lastMention>>

(***************************************************************************)
(* fuzzyMatch: one call                                                    *)
(***************************************************************************)
VARIABLES
    fuzzyPattern,       \* the pattern argument
    fuzzyText,          \* the text argument
    fuzzyCalled,        \* the call has been made
    fuzzyResult         \* [score, matches]

fuzzyVars == <<fuzzyPattern, fuzzyText, fuzzyCalled, fuzzyResult>>

(***************************************************************************)
(* filteredItems of the popover: one render                                *)
(***************************************************************************)
VARIABLES
    itemsQuery,         \* the query prop
    itemsExtensions,    \* number of enabled extensions
    itemsFiles,         \* number of loaded files
    itemsRendered,      \* filteredItems has been computed
    itemsOffered        \* filteredItems

itemsVars == <<itemsQuery, itemsExtensions, itemsFiles, itemsRendered, itemsOffered>>

(***************************************************************************)
(* useAgent and Hub: state                                                 *)
(***************************************************************************)
VARIABLES
    agentState,
    sessionId,              \* 0: null
    initPromiseRef,         \* 0 (null) or the load whose initialization is pending
    recipeFromAppConfig,    \* a recipe is held (FALSE: null)
    loads,                  \* calls of loadCurrentChat: [kind, pc, resume, session, target]
    nextSessionId,          \* the session the next startAgent creates
    view,                   \* "hub" or "pair"
    lastHubSubmit           \* the last non-empty Hub submission and what it observed

agentVars == <<agentState, sessionId, initPromiseRef, recipeFromAppConfig, loads,
               nextSessionId, view, lastHubSubmit>>

\* useExtensionToast and the toggles of ExtensionsDropdown
VARIABLES
    activeToasts,           \* extension name -> toast id (0: no entry)
    togglingExtensions,     \* names whose toggle is in progress
    toggleCalls,            \* handleToggle calls: [name, toast, pc, success]
    cleanupTimers           \* pending cleanup timeouts: sequence of [name, remaining]

extensionToastVars == <<activeToasts, togglingExtensions, toggleCalls, cleanupTimers>>

vars == <<chatVars, eventVars, highlightVars, toastVars, mentionVars, fuzzyVars,
          itemsVars, agentVars, extensionToastVars>>

\* Texts the user can have in the input.
Texts == {"", "  ", "fix", " stop ", "wait"}

\* String.prototype.trim on the texts of the model.
Trim(t) ==
    CASE t = "  " -> ""
      [] t = " stop " -> "stop"
      [] OTHER -> t

\* detectInterruption(text): null when nothing matches, otherwise the match.
\* matched = FALSE stands for the null result.
detectInterruption(text) ==
    CASE text = "stop" ->
            [matched |-> TRUE, shouldInterrupt |-> TRUE, matchedText |-> "stop"]
      [] text = "wait" ->
            [matched |-> TRUE, shouldInterrupt |-> FALSE, matchedText |-> "wait"]
      [] OTHER ->
            [matched |-> FALSE, shouldInterrupt |-> FALSE, matchedText |-> ""]

\* JavaScript truthiness of a string-or-null value.
Truthy(v) == v # NULL /\ v # ""

NoOp == [kind |-> "init", wasPaused |-> FALSE, hadInterruption |-> FALSE, afterStop |-> {}, held |-> {}]

\* The component state as one record, so that a handler and the effects that
\* follow it compose.
Cur ==
    [isLoading |-> isLoading, wasLoadingRef |-> wasLoadingRef,
     queuedMessages |-> queuedMessages, queuePausedRef |-> queuePausedRef,
     lastInterruption |-> lastInterruption, displayValue |-> displayValue,
     submitted |-> submitted, stopCalled |-> FALSE, nextId |-> nextId,
     restoreTimers |-> restoreTimers, touched |-> touched,
     interruptionIds |-> interruptionIds]

Commit(s, op) ==
    /\ isLoading' = s.isLoading
    /\ wasLoadingRef' = s.wasLoadingRef
    /\ queuedMessages' = s.queuedMessages
    /\ queuePausedRef' = s.queuePausedRef
    /\ lastInterruption' = s.lastInterruption
    /\ displayValue' = s.displayValue
    /\ submitted' = s.submitted
    /\ stopCalled' = s.stopCalled
    /\ nextId' = s.nextId
    /\ restoreTimers' = s.restoreTimers
    /\ touched' = s.touched
    /\ interruptionIds' = s.interruptionIds
    /\ lastOp' = op

\* The events the properties below tell apart.
ObservedKinds == {"idle", "enter", "stopAndSend", "resume", "clear"}

\* The messages that were queued when Stop-and-send was clicked while a
\* request was active, until the loading->idle transition that its onStop
\* causes.
AfterStop(kind) ==
    IF kind = "stopAndSend"
    THEN IF isLoading THEN {queuedMessages[k].id : k \in 1..Len(queuedMessages)} ELSE {}
    ELSE IF kind = "idle" THEN {}
    ELSE lastOp.afterStop

\* The messages left in the queue when the effect sent the interruption
\* message ahead of them, until the user resumes or clears the queue.
Held(kind) ==
    IF kind = "idle" /\ wasLoadingRef /\ Truthy(lastInterruption)
       /\ Len(queuedMessages) >= 2 /\ queuedMessages[1].id \in interruptionIds
    THEN {queuedMessages[k].id : k \in 2..Len(queuedMessages)}
    ELSE IF kind \in {"resume", "clear"} THEN {}
    ELSE lastOp.held \cap {queuedMessages[k].id : k \in 1..Len(queuedMessages)}

\* What an event observed before it acted.
Op(kind) ==
    [kind |-> IF kind \in ObservedKinds THEN kind ELSE "other",
     wasPaused |-> kind \in {"idle", "enter"} /\ queuePausedRef,
     hadInterruption |-> kind \in {"idle", "enter"} /\ Truthy(lastInterruption),
     afterStop |-> AfterStop(kind),
     held |-> Held(kind)]

\* The parent's handleSubmit: the call is recorded with the chat state the
\* caller rendered with.
handleSubmit(s, id, content, via) ==
    [s EXCEPT !.submitted = Append(@, [id |-> id, content |-> content, via |-> via,
                                       loading |-> s.isLoading])]

\* The parent's onStop.
onStop(s) == [s EXCEPT !.stopCalled = TRUE]

(***************************************************************************)
(* ChatInput: queue processing effect                                     *)
(***************************************************************************)
\* The updater passed to setQueuedMessages in the effect and in
\* handleResumeQueue: besides returning prev.slice(1) it clears the pause
\* state when the queue becomes empty.
DequeueUpdater(s, prev) ==
    LET newQueue == Tail(prev)
        s1 == IF newQueue = <<>>
              THEN [s EXCEPT !.queuePausedRef = FALSE, !.lastInterruption = NULL]
              ELSE s
    IN [s1 EXCEPT !.queuedMessages = newQueue]

\* Lines 226-232 of the effect: after the interruption message is sent the
\* flag is cleared and the queue stays paused.
KeepPausedAfterInterruption(s, hadInterruption) ==
    IF hadInterruption
    THEN [s EXCEPT !.lastInterruption = NULL, !.queuePausedRef = TRUE]
    ELSE s

\* shouldProcessQueue of the effect.
ShouldProcessIgnoringInterruption(s) == ~s.queuePausedRef
ShouldProcessIgnoringPause(s) == TRUE
shouldProcessQueue(s) == ~s.queuePausedRef \/ Truthy(s.lastInterruption)

\* One run of the effect.  React may run the updater at the setState call
\* (eager) or at the next render (not eager), so its side effects on the ref come
\* before or after lines 226-232.
QueueEffectNoRefUpdate(s, eager) ==
    IF s.wasLoadingRef /\ ~s.isLoading /\ Len(s.queuedMessages) > 0
       /\ shouldProcessQueue(s)
    THEN LET nextMessage == s.queuedMessages[1]
             had == Truthy(s.lastInterruption)
             s1 == handleSubmit(s, nextMessage.id, nextMessage.content, "auto")
         IN IF eager
            THEN KeepPausedAfterInterruption(DequeueUpdater(s1, s.queuedMessages), had)
            ELSE DequeueUpdater(KeepPausedAfterInterruption(s1, had), s.queuedMessages)
    ELSE s
QueueEffect(s, eager) ==
    LET s1 == IF s.wasLoadingRef /\ ~s.isLoading /\ Len(s.queuedMessages) > 0
                 /\ shouldProcessQueue(s)
              THEN LET nextMessage == s.queuedMessages[1]
                       had == Truthy(s.lastInterruption)
                       s2 == handleSubmit(s, nextMessage.id, nextMessage.content,
                                          "auto")
                   IN IF eager
                      THEN KeepPausedAfterInterruption(
                               DequeueUpdater(s2, s.queuedMessages), had)
                      ELSE DequeueUpdater(
                               KeepPausedAfterInterruption(s2, had), s.queuedMessages)
              ELSE s
    IN [s1 EXCEPT !.wasLoadingRef = s.isLoading]

\* Re-render after an event: the effect runs, and runs again while its
\* dependencies (isLoading, queuedMessages, lastInterruption) keep changing.
RECURSIVE Render(_, _, _)
Render(s, eager, fuel) ==
    LET s1 == QueueEffect(s, eager)
    IN IF fuel = 0 \/ (s1.queuedMessages = s.queuedMessages
                       /\ s1.lastInterruption = s.lastInterruption)
       THEN s1
       ELSE Render(s1, eager, fuel - 1)

Rendered(s, eager) == Render(s, eager, MaxMsgs + 1)

(***************************************************************************)
(* ChatInput: handlers                                                     *)
(***************************************************************************)
NewMessage(s) == [id |-> s.nextId, content |-> Trim(s.displayValue)]

\* handleInterruptionAndQueue, interruption branch (lines 937-956).
QueueInterruptionAtBack(s, interruptionMatch) ==
    LET s1 == onStop([s EXCEPT !.lastInterruption = interruptionMatch.matchedText])
    IN [s1 EXCEPT !.queuePausedRef = TRUE,
                  !.queuedMessages = Append(@, NewMessage(s)),
                  !.interruptionIds = @ \cup {s.nextId},
                  !.nextId = @ + 1,
                  !.displayValue = ""]
QueueInterruption(s, interruptionMatch) ==
    LET s1 == onStop([s EXCEPT !.lastInterruption = interruptionMatch.matchedText])
    IN [s1 EXCEPT !.queuePausedRef = TRUE,
                  !.queuedMessages = <<NewMessage(s)>> \o @,
                  !.interruptionIds = @ \cup {s.nextId},
                  !.nextId = @ + 1,
                  !.displayValue = ""]

\* handleInterruptionAndQueue, ordinary branch (lines 958-974).
QueueOrdinaryAtFront(s) ==
    LET s1 == IF s.queuedMessages = <<>>
              THEN [s EXCEPT !.queuePausedRef = FALSE, !.lastInterruption = NULL]
              ELSE s
    IN [s1 EXCEPT !.queuedMessages = <<NewMessage(s)>> \o @,
                  !.nextId = @ + 1,
                  !.displayValue = ""]
QueueOrdinary(s) ==
    LET s1 == IF s.queuedMessages = <<>>
              THEN [s EXCEPT !.queuePausedRef = FALSE, !.lastInterruption = NULL]
              ELSE s
    IN [s1 EXCEPT !.queuedMessages = Append(@, NewMessage(s)),
                  !.nextId = @ + 1,
                  !.displayValue = ""]

\* handleInterruptionAndQueue: [handled, st].
QueueEvenWhenIdle(s) ==
    IF Trim(s.displayValue) = ""
    THEN [handled |-> FALSE, st |-> s]
    ELSE [handled |-> TRUE, st |-> QueueOrdinary(s)]
handleInterruptionAndQueue(s) ==
    IF ~s.isLoading \/ Trim(s.displayValue) = ""
    THEN [handled |-> FALSE, st |-> s]
    ELSE LET interruptionMatch == detectInterruption(Trim(s.displayValue))
         IN IF interruptionMatch.matched /\ interruptionMatch.shouldInterrupt
            THEN [handled |-> TRUE, st |-> QueueInterruption(s, interruptionMatch)]
            ELSE [handled |-> TRUE, st |-> QueueOrdinary(s)]

\* canSubmit (lines 977-984); hasFiles: a usable pasted image, dropped file
\* or selected file.
canSubmit(s, isCompacting, agentIsReady, hasFiles) ==
    /\ ~s.isLoading
    /\ ~isCompacting
    /\ agentIsReady
    /\ (Trim(s.displayValue) # "" \/ hasFiles)

\* performSubmit() with no argument (lines 986-1050).  The text sent is the
\* trimmed input followed by the file paths.
performSubmit(s, hasFiles) ==
    LET text == Trim(s.displayValue)
        textToSend == text # "" \/ hasFiles
    IN IF textToSend
       THEN LET s1 == handleSubmit(s, 0, text, "direct")
                s2 == IF s.queuePausedRef /\ Truthy(s.lastInterruption)
                         /\ ~detectInterruption(text).matched
                      THEN [s1 EXCEPT !.queuePausedRef = FALSE,
                                      !.lastInterruption = NULL]
                      ELSE s1
            IN [s2 EXCEPT !.displayValue = ""]
       ELSE s

\* handleKeyDown for the Enter key (lines 1073-1115).
handleKeyDown(s, popoverOpen, shiftKey, isComposing, altKey, isCompacting, agentIsReady, hasFiles) ==
    IF popoverOpen THEN s
    ELSE IF shiftKey \/ isComposing THEN s
    ELSE IF altKey THEN s      \* appends a line break: modelled by TypeText
    ELSE LET r == handleInterruptionAndQueue(s)
         IN IF r.handled THEN r.st
            ELSE IF canSubmit(s, isCompacting, agentIsReady, hasFiles)
                 THEN performSubmit(s, hasFiles)
                 ELSE s

\* onFormSubmit (lines 1117-1130).
onFormSubmit(s, isCompacting, agentIsReady, hasFiles) ==
    IF canSubmit(s, isCompacting, agentIsReady, hasFiles)
    THEN performSubmit(s, hasFiles)
    ELSE s

Ids(q) == {q[i].id : i \in 1..Len(q)}

Without(q, messageId) == SelectSeq(q, LAMBDA m : m.id # messageId)

\* handleRemoveQueuedMessage (lines 1261-1263).
handleRemoveQueuedMessage(s, messageId) ==
    [s EXCEPT !.queuedMessages = Without(@, messageId),
              !.touched = @ \cup {messageId}]

\* handleClearQueue (lines 1265-1269).
handleClearQueue(s) ==
    [s EXCEPT !.queuedMessages = <<>>,
              !.queuePausedRef = FALSE,
              !.lastInterruption = NULL,
              !.touched = @ \cup Ids(s.queuedMessages)]

\* handleReorderMessages (lines 1271-1273) with the list MessageQueue passes
\* after a drag: neighbours i and i+1 exchanged.
handleReorderMessages(s, i) ==
    LET q == s.queuedMessages
        reorderedMessages ==
            [k \in 1..Len(q) |-> IF k = i THEN q[i + 1]
                                 ELSE IF k = i + 1 THEN q[i] ELSE q[k]]
    IN [s EXCEPT !.queuedMessages = reorderedMessages,
                 !.touched = @ \cup {q[i].id, q[i + 1].id}]

\* handleEditMessage (lines 1275-1279).
handleEditMessage(s, messageId, newContent) ==
    [s EXCEPT !.queuedMessages =
        [k \in 1..Len(@) |-> IF @[k].id = messageId
                             THEN [@[k] EXCEPT !.content = newContent]
                             ELSE @[k]]]

\* handleStopAndSend (lines 1281-1303); the restore of the pause flag is a
\* timer that fires later (RestoreTimerFires).
handleStopAndSend(s, messageId) ==
    IF messageId \notin Ids(s.queuedMessages) THEN s
    ELSE LET messageToSend ==
                 CHOOSE m \in {s.queuedMessages[k] : k \in 1..Len(s.queuedMessages)} :
                     m.id = messageId
             wasPaused == s.queuePausedRef
             s1 == onStop(s)
             s2 == [s1 EXCEPT !.queuePausedRef = TRUE,
                              !.queuedMessages = Without(@, messageId),
                              !.touched = @ \cup {messageId}]
             s3 == handleSubmit(s2, messageToSend.id, messageToSend.content,
                                "stopAndSend")
         IN [s3 EXCEPT !.restoreTimers = Append(@, wasPaused)]

\* handleResumeQueue (lines 1305-1326).
handleResumeQueue(s) ==
    LET s1 == [s EXCEPT !.queuePausedRef = FALSE, !.lastInterruption = NULL]
    IN IF ~s.isLoading /\ Len(s.queuedMessages) > 0
       THEN LET nextMessage == s.queuedMessages[1]
                s2 == handleSubmit(s1, nextMessage.id, nextMessage.content,
                                   "resume")
            IN DequeueUpdater(s2, s.queuedMessages)
       ELSE s1

(***************************************************************************)
(* ChatInput: actions                                                      *)
(***************************************************************************)
InBounds(s) ==
    /\ Len(s.submitted) <= MaxSubmits
    /\ s.nextId <= MaxMsgs + 1
    /\ Len(s.restoreTimers) <= MaxTimers

\* A run ends with the MaxSubmits-th handleSubmit call.
Step(s, op) ==
    /\ Len(submitted) < MaxSubmits
    /\ InBounds(s)
    /\ Commit(s, op)

\* handleChange: the user edits the input.
TypeText ==
    \E t \in Texts :
        /\ t # displayValue
        /\ Step(Rendered([Cur EXCEPT !.displayValue = t], TRUE), Op("type"))

\* Ways the Enter key arrives: alone, with the mention popover open, with
\* Shift, during IME composition, with Alt.
EnterKeys == {"plain", "popover", "shift", "composing", "alt"}

\* The Enter key in the input.
PressEnter ==
    \E key \in EnterKeys, isCompacting, agentIsReady, hasFiles \in BOOLEAN :
        /\ key # "plain" => ~isCompacting /\ agentIsReady /\ ~hasFiles
        /\ Step(Rendered(handleKeyDown(Cur, key = "popover", key = "shift",
                                       key = "composing", key = "alt",
                                       isCompacting, agentIsReady, hasFiles),
                         TRUE),
                Op(IF key = "plain" THEN "enter" ELSE "enterOther"))

\* The send button of the form.
FormSubmit ==
    \E isCompacting, agentIsReady, hasFiles \in BOOLEAN :
        Step(Rendered(onFormSubmit(Cur, isCompacting, agentIsReady, hasFiles), TRUE),
             Op("formSubmit"))

\* The stop button, shown while loading (line 1461).
ClickStop ==
    /\ isLoading
    /\ Step(Rendered(onStop(Cur), TRUE), Op("stop"))

\* The parent's request ends (completed or stopped): chatState becomes Idle.
ChatBecomesIdle ==
    /\ isLoading
    /\ \E eager \in BOOLEAN :
        Step(Rendered([Cur EXCEPT !.isLoading = FALSE], eager), Op("idle"))

\* The parent starts a request: chatState leaves Idle.
ChatBecomesLoading ==
    /\ ~isLoading
    /\ Step(Rendered([Cur EXCEPT !.isLoading = TRUE], TRUE), Op("loading"))

RemoveQueuedMessage ==
    \E messageId \in Ids(queuedMessages) :
        Step(Rendered(handleRemoveQueuedMessage(Cur, messageId), TRUE), Op("remove"))

ClearQueue ==
    /\ queuedMessages # <<>>
    /\ Step(Rendered(handleClearQueue(Cur), TRUE), Op("clear"))

ReorderMessages ==
    \E i \in 1..(Len(queuedMessages) - 1) :
        Step(Rendered(handleReorderMessages(Cur, i), TRUE), Op("reorder"))

EditMessage ==
    \E messageId \in Ids(queuedMessages) :
        /\ Step(Rendered(handleEditMessage(Cur, messageId, "edited"), TRUE), Op("edit"))

StopAndSend ==
    \E messageId \in Ids(queuedMessages) :
        Step(Rendered(handleStopAndSend(Cur, messageId), TRUE), Op("stopAndSend"))

ResumeQueue ==
    /\ queuedMessages # <<>>
    /\ Step(Rendered(handleResumeQueue(Cur), TRUE), Op("resume"))

\* The 100 ms timer of handleStopAndSend fires (lines 1300-1302).
RestoreTimerFires ==
    /\ restoreTimers # <<>>
    /\ Step(Rendered([Cur EXCEPT !.queuePausedRef = Head(restoreTimers),
                                 !.restoreTimers = Tail(@)], TRUE),
            Op("restoreTimer"))

ChatInit ==
    /\ isLoading \in BOOLEAN
    /\ wasLoadingRef = isLoading
    /\ queuedMessages = <<>>
    /\ queuePausedRef = FALSE
    /\ lastInterruption = NULL
    /\ displayValue = ""
    /\ submitted = <<>>
    /\ stopCalled = FALSE
    /\ nextId = 1
    /\ restoreTimers = <<>>
    /\ touched = {}
    /\ interruptionIds = {}
    /\ lastOp = NoOp

ChatNext ==
    \/ TypeText
    \/ PressEnter
    \/ FormSubmit
    \/ ClickStop
    \/ ChatBecomesIdle
    \/ ChatBecomesLoading
    \/ RemoveQueuedMessage
    \/ ClearQueue
    \/ ReorderMessages
    \/ EditMessage
    \/ StopAndSend
    \/ ResumeQueue
    \/ RestoreTimerFires

(***************************************************************************)
(* ChatInput: properties                                                   *)
(***************************************************************************)
Last(q) == q[Len(q)]

\* The record handleSubmit receives for a queued message sent by the effect.
AutoEntry(m) == [id |-> m.id, content |-> m.content, via |-> "auto", loading |-> FALSE]

\* Messages queued by ordinary input that the user left alone.
Untouched(id) == id # 0 /\ id \notin touched /\ id \notin interruptionIds

LoadingToIdle == isLoading /\ ~isLoading'

\* C1: messages queued by ordinary input and not removed, reordered or
\* stop-and-sent are passed to handleSubmit in the order they were queued
\* (ids are handed out in queueing order), and each of them is submitted
\* with the chat idle, never while a request is active.
C1_FifoFlush ==
    \A j \in 1..Len(submitted) :
        LET b == submitted[j].id
        IN Untouched(b) =>
            /\ ~submitted[j].loading
            /\ \A a \in 1..(b - 1) :
                   Untouched(a) => \E i \in 1..(j - 1) : submitted[i].id = a

C1_Witness ==
    /\ Len(submitted) = 2
    /\ submitted[1].id = 1 /\ submitted[1].via = "auto"
    /\ submitted[2].id = 2 /\ submitted[2].via = "auto"
    /\ Untouched(1) /\ Untouched(2)

\* C2: a loading->idle transition with a non-empty, unpaused queue passes
\* exactly the head to handleSubmit and leaves the tail, in order, as the
\* queue; the effect submits nothing in any other step, and at most one
\* message per transition.
C2_OneDequeuePerIdle ==
    [][/\ (LoadingToIdle /\ queuedMessages # <<>> /\ ~queuePausedRef) =>
              /\ submitted' = Append(submitted, AutoEntry(Head(queuedMessages)))
              /\ queuedMessages' = Tail(queuedMessages)
       /\ \A k \in (Len(submitted) + 1)..Len(submitted') :
              submitted'[k].via = "auto" =>
                  /\ LoadingToIdle
                  /\ Len(submitted') = Len(submitted) + 1
                  /\ Len(queuedMessages') = Len(queuedMessages) - 1]_chatVars

C2_Witness ==
    /\ lastOp.kind = "idle" /\ ~lastOp.wasPaused
    /\ submitted # <<>> /\ Last(submitted).via = "auto"
    /\ queuedMessages # <<>>

\* C3 as stated: a loading->idle transition with the queue paused submits
\* nothing and leaves the queue as it is.
C3_PausedNeverSubmits ==
    [][(LoadingToIdle /\ queuePausedRef) =>
           (submitted' = submitted /\ queuedMessages' = queuedMessages)]_chatVars

\* C3 amended: a loading->idle transition with the queue paused and no
\* interruption pending (lastInterruption is null) submits nothing and
\* leaves the queue as it is.
C3_PausedWithoutInterruption ==
    [][(LoadingToIdle /\ queuePausedRef /\ ~Truthy(lastInterruption)) =>
           (submitted' = submitted /\ queuedMessages' = queuedMessages)]_chatVars

C3_Witness ==
    /\ lastOp.kind = "idle" /\ lastOp.wasPaused /\ ~lastOp.hadInterruption
    /\ queuedMessages # <<>>
    /\ ~isLoading

\* C4: Enter (alone, popover closed) while loading with a trimmed input that
\* detectInterruption flags: onStop is called, the queue is paused,
\* lastInterruption is the matched text, the trimmed input is a new message
\* ahead of the whole queue, the input is cleared and handleSubmit is not
\* called.
C4_InterruptionQueuedFirst ==
    [][(lastOp'.kind = "enter" /\ isLoading
        /\ detectInterruption(Trim(displayValue)).matched
        /\ detectInterruption(Trim(displayValue)).shouldInterrupt) =>
           /\ stopCalled'
           /\ queuePausedRef'
           /\ lastInterruption' = detectInterruption(Trim(displayValue)).matchedText
           /\ queuedMessages' =
                  <<[id |-> nextId, content |-> Trim(displayValue)]>> \o queuedMessages
           /\ displayValue' = ""
           /\ submitted' = submitted]_chatVars

C4_Witness ==
    /\ lastOp.kind = "enter" /\ stopCalled /\ queuePausedRef
    /\ Len(queuedMessages) >= 2
    /\ queuedMessages[1].id = nextId - 1
    /\ queuedMessages[1].id \in interruptionIds
    /\ lastInterruption = "stop"
    /\ displayValue = ""

\* The message of the most recent interruption (0: none).
LatestInterruption ==
    IF interruptionIds = {} THEN 0
    ELSE CHOOSE i \in interruptionIds : \A k \in interruptionIds : k <= i

InterruptionWaiting ==
    /\ LatestInterruption \in Ids(queuedMessages)
    /\ LatestInterruption \notin touched

C9_QueueOnlyWhileLoading ==
    [][/\ (Ids(queuedMessages') \ Ids(queuedMessages) # {}) => isLoading
       /\ (lastOp'.kind = "enter" /\ isLoading /\ Trim(displayValue) # "") =>
              /\ submitted' = submitted
              /\ displayValue' = ""
              /\ Ids(queuedMessages') = Ids(queuedMessages) \cup {nextId}
              /\ \E k \in 1..Len(queuedMessages') :
                     queuedMessages'[k] = [id |-> nextId, content |-> Trim(displayValue)]
       /\ (lastOp'.kind = "enter" /\ ~isLoading) =>
              Ids(queuedMessages') \subseteq Ids(queuedMessages)]_chatVars

C9_Witness ==
    /\ lastOp.kind = "enter" /\ isLoading
    /\ queuedMessages # <<>>
    /\ Last(queuedMessages).id = nextId - 1
    /\ Last(queuedMessages).content = "fix"
    /\ displayValue = ""
    /\ submitted # <<>> /\ Last(submitted).via = "direct"

\* C17: Stop-and-send of a queued message m calls onStop, removes m from
\* the queue and passes m to handleSubmit once; the loading->idle
\* transition that follows the stop auto-submits none of the messages that
\* were queued at the click, whether the 100 ms timer has fired or not.
C17_StopAndSendNoDoubleSend ==
    [][/\ lastOp'.kind = "stopAndSend" =>
              \E k \in 1..Len(queuedMessages) :
                  LET m == queuedMessages[k]
                  IN /\ stopCalled'
                     /\ queuedMessages' = Without(queuedMessages, m.id)
                     /\ submitted' =
                            Append(submitted,
                                   [id |-> m.id, content |-> m.content,
                                    via |-> "stopAndSend", loading |-> isLoading])
       /\ LoadingToIdle =>
              \A k \in (Len(submitted) + 1)..Len(submitted') :
                  submitted'[k].id \notin lastOp.afterStop]_chatVars

\* C19: when the effect or Resume sends the last queued message, or the
\* queue is cleared, the pause flag is false and lastInterruption is null
\* afterwards.
C19_EmptyQueueUnpaused ==
    [][(\/ /\ queuedMessages # <<>> /\ queuedMessages' = <<>>
           /\ Len(submitted') = Len(submitted) + 1
           /\ Last(submitted').via \in {"auto", "resume"}
        \/ lastOp'.kind = "clear") =>
           (~queuePausedRef' /\ lastInterruption' = NULL)]_chatVars

\* Messages wait in a queue that an interruption paused: lastInterruption
\* is set, or the effect has just sent the interruption message and kept
\* the queue paused.
PausedByInterruption ==
    /\ queuedMessages # <<>>
    /\ queuePausedRef
    /\ \/ Truthy(lastInterruption)
       \/ lastOp.kind = "idle" /\ lastOp.hadInterruption

\* C20: with the queue paused by an interruption, a direct send of a text
\* that detectInterruption does not flag leaves the queue un-paused and
\* lastInterruption null.
C20_DirectSendResumes ==
    [][(/\ PausedByInterruption
        /\ Len(submitted') = Len(submitted) + 1
        /\ Last(submitted').via = "direct"
        /\ ~detectInterruption(Last(submitted').content).matched) =>
           (~queuePausedRef' /\ lastInterruption' = NULL)]_chatVars

(***************************************************************************)
(* ChatInput: a longer session                                             *)
(***************************************************************************)
\* Sessions of up to LongMsgs queued messages in which the user types,
\* presses Enter, removes messages and uses Stop-and-send, and neither
\* resumes nor clears the queue.
LongMsgs == 3
LongSubmits == 3
LongTexts == {"fix", " stop "}

LongStep(s, op) ==
    /\ Len(submitted) < LongSubmits
    /\ Len(s.submitted) <= LongSubmits
    /\ s.nextId <= LongMsgs + 1
    /\ Len(s.restoreTimers) <= MaxTimers
    /\ Commit(s, op)

LongTypeText ==
    \E t \in LongTexts :
        /\ t # displayValue
        /\ LongStep(Rendered([Cur EXCEPT !.displayValue = t], TRUE), Op("type"))

LongPressEnter ==
    LongStep(Rendered(handleKeyDown(Cur, FALSE, FALSE, FALSE, FALSE, FALSE, TRUE, FALSE), TRUE), Op("enter"))

LongBecomesIdle ==
    /\ isLoading
    /\ \E eager \in BOOLEAN :
        LongStep(Rendered([Cur EXCEPT !.isLoading = FALSE], eager), Op("idle"))

LongBecomesLoading ==
    /\ ~isLoading
    /\ LongStep(Rendered([Cur EXCEPT !.isLoading = TRUE], TRUE), Op("loading"))

LongRemoveQueuedMessage ==
    \E messageId \in Ids(queuedMessages) :
        LongStep(Rendered(handleRemoveQueuedMessage(Cur, messageId), TRUE), Op("remove"))

LongStopAndSend ==
    \E messageId \in Ids(queuedMessages) :
        LongStep(Rendered(handleStopAndSend(Cur, messageId), TRUE), Op("stopAndSend"))

LongRestoreTimerFires ==
    /\ restoreTimers # <<>>
    /\ LongStep(Rendered([Cur EXCEPT !.queuePausedRef = Head(restoreTimers),
                                     !.restoreTimers = Tail(@)], TRUE),
                Op("restoreTimer"))

LongNext ==
    \/ LongTypeText
    \/ LongPressEnter
    \/ LongBecomesIdle
    \/ LongBecomesLoading
    \/ LongRemoveQueuedMessage
    \/ LongStopAndSend
    \/ LongRestoreTimerFires

\* C18: once the effect has sent the interruption message ahead of other
\* queued messages, and until the user resumes or clears the queue, the
\* queue stays paused while any of those messages waits and the effect
\* sends none of them.
C18_StaysPausedAfterInterruption ==
    [][/\ \A k \in (Len(submitted) + 1)..Len(submitted') :
              submitted'[k].via = "auto" => submitted'[k].id \notin lastOp.held
       /\ (lastOp'.held \cap Ids(queuedMessages') # {}) => queuePausedRef']_chatVars

(***************************************************************************)
(* SearchEventManager                                                      *)
(***************************************************************************)
Events == {"find-command", "find-next", "find-previous", "use-selection-find"}

Views == 1..NumViews

NoHandler == [owner |-> 0, version |-> 0]

\* The manager's fields as one record, so that its methods compose.
Manager ==
    [activeSearchView |-> activeSearchView, handlers |-> handlers,
     listenersAttached |-> listenersAttached, listeners |-> listeners]

\* attachListeners (lines 36-45): window.electron.on for the four events.
attachListeners(m) ==
    IF m.listenersAttached THEN m
    ELSE [m EXCEPT !.listeners = [e \in Events |-> @[e] + 1],
                   !.listenersAttached = TRUE]

\* detachListeners (lines 47-56): window.electron.off for the four events.
DetachForgetsOneEvent(m) ==
    IF ~m.listenersAttached THEN m
    ELSE [m EXCEPT !.listeners =
                       [e \in Events |-> IF @[e] > 0 /\ e # "use-selection-find"
                                         THEN @[e] - 1 ELSE @[e]],
                   !.listenersAttached = FALSE]
detachListeners(m) ==
    IF ~m.listenersAttached THEN m
    ELSE [m EXCEPT !.listeners = [e \in Events |-> IF @[e] > 0 THEN @[e] - 1 ELSE 0],
                   !.listenersAttached = FALSE]

\* register (lines 61-69).
register(m, instanceId, h) ==
    LET m1 == IF m.activeSearchView = 0 THEN attachListeners(m) ELSE m
    IN [m1 EXCEPT !.activeSearchView = instanceId, !.handlers = h]

\* unregister (lines 74-83).
unregister(m, instanceId) ==
    IF m.activeSearchView = instanceId
    THEN detachListeners([m EXCEPT !.activeSearchView = 0,
                                   !.handlers = [e \in Events |-> NoHandler]])
    ELSE m

\* updateHandlers (lines 88-92): h is a partial map of events.
updateHandlers(m, instanceId, h) ==
    IF m.activeSearchView = instanceId
    THEN [m EXCEPT !.handlers =
             [e \in Events |-> IF e \in DOMAIN h THEN h[e] ELSE @[e]]]
    ELSE m

\* isActive (lines 97-99).
isActive(m, instanceId) == m.activeSearchView = instanceId

\* The four callbacks a SearchView passes (part_004:311-316).
HandlersOf(v, version) == [e \in Events |-> [owner |-> v, version |-> version]]

\* The two effects of SearchView that talk to the manager, run in order after
\* a render with new callbacks (part_004:306-335).
RegisterEffects(m, v, version) ==
    LET m1 == register(m, v, HandlersOf(v, version))
    IN IF isActive(m1, v) THEN updateHandlers(m1, v, HandlersOf(v, version)) ELSE m1

CommitManager(m) ==
    /\ activeSearchView' = m.activeSearchView
    /\ handlers' = m.handlers
    /\ listenersAttached' = m.listenersAttached
    /\ listeners' = m.listeners

\* A SearchView mounts.
Mount ==
    \E v \in Views \ mounted :
        /\ CommitManager(RegisterEffects(Manager, v, handlerVersion[v]))
        /\ mounted' = mounted \cup {v}
        /\ UNCHANGED <<handlerVersion, lastDispatch>>

\* A mounted SearchView re-renders with new callbacks: the cleanup of the
\* registration effect unregisters, then both effects run again.
HandlersChange ==
    \E v \in mounted :
        /\ handlerVersion[v] < MaxVersion
        /\ handlerVersion' = [handlerVersion EXCEPT ![v] = @ + 1]
        /\ CommitManager(RegisterEffects(unregister(Manager, v), v,
                                         handlerVersion[v] + 1))
        /\ UNCHANGED <<mounted, lastDispatch>>

\* A SearchView unmounts: the cleanup of the registration effect.
Unmount ==
    \E v \in mounted :
        /\ CommitManager(unregister(Manager, v))
        /\ mounted' = mounted \ {v}
        /\ UNCHANGED <<handlerVersion, lastDispatch>>

\* window.electron emits a find event: every attached manager listener runs
\* and calls this.handlers[event]?.() (lines 20-34).
Dispatch ==
    \E e \in Events :
        /\ lastDispatch' =
               [event |-> e,
                invocations |-> IF handlers[e].owner # 0 THEN listeners[e] ELSE 0,
                owner |-> handlers[e].owner]
        /\ UNCHANGED <<activeSearchView, handlers, listenersAttached, listeners,
                       mounted, handlerVersion>>

EventsInit ==
    /\ activeSearchView = 0
    /\ handlers = [e \in Events |-> NoHandler]
    /\ listenersAttached = FALSE
    /\ listeners = [e \in Events |-> 0]
    /\ mounted = {}
    /\ handlerVersion = [v \in Views |-> 0]
    /\ lastDispatch = [event |-> "none", invocations |-> 0, owner |-> 0]

EventsNext ==
    \/ Mount
    \/ HandlersChange
    \/ Unmount
    \/ Dispatch

\* C6: every find event has at most one manager listener attached, and a
\* dispatched event invokes at most one handler.
C6_OneListenerPerEvent ==
    /\ \A e \in Events : listeners[e] <= 1
    /\ lastDispatch.invocations <= 1

C6_Witness ==
    /\ mounted = Views
    /\ \A v \in Views : handlerVersion[v] = MaxVersion
    /\ \A e \in Events : listeners[e] = 1
    /\ lastDispatch.invocations = 1

\* C7 as stated: while a SearchView is mounted the listeners are attached
\* and every find event goes to the handler of a mounted view.
C7_MountedViewIsServed ==
    mounted # {} =>
        /\ listenersAttached
        /\ \A e \in Events : listeners[e] = 1 /\ handlers[e].owner \in mounted

(***************************************************************************)
(* SearchView: highlight scheduling                                        *)
(***************************************************************************)
DebounceMs == 150

\* Time advances in steps of a third of the debounce delay.
SearchTickMs == DebounceMs \div 3

SearchTerms == {"", "a", "ab"}

NoResults == [currentIndex |-> 0, count |-> 0]

NoNavigate == [direction |-> "none", from |-> 0]

\* The SearchView fields as one record.
View ==
    [lastSearchRef |-> lastSearchRef, highlighterRef |-> highlighterRef,
     internalSearchResults |-> internalSearchResults,
     pendingHighlights |-> pendingHighlights, lastPass |-> lastPass,
     currentMatch |-> currentMatch, lastNavigate |-> NoNavigate,
     highlighterSearch |-> highlighterSearch]

CommitView(h) ==
    /\ lastSearchRef' = h.lastSearchRef
    /\ highlighterRef' = h.highlighterRef
    /\ internalSearchResults' = h.internalSearchResults
    /\ pendingHighlights' = h.pendingHighlights
    /\ lastPass' = h.lastPass
    /\ currentMatch' = h.currentMatch
    /\ lastNavigate' = h.lastNavigate
    /\ highlighterSearch' = h.highlighterSearch

\* performHighlight (lines 64-77); count is highlighter.highlight(...).length.
\* current: the highlighter of the closure is still highlighterRef.current.
performHighlight(h, term, current, superseded, count) ==
    [h EXCEPT !.internalSearchResults =
                  IF count > 0 THEN [currentIndex |-> 1, count |-> count]
                  ELSE NoResults,
              !.currentMatch = IF count > 0 /\ current THEN 0 ELSE @,
              !.lastPass = [ran |-> TRUE, term |-> term, superseded |-> superseded,
                            stale |-> ~current]]

\* debouncedHighlight (lines 62-97): a new debounce(performHighlight, 150) is
\* created and called once on every call, so every call arms its own timer.
debouncedHighlight(h, term, caseSensitive, count) ==
    IF term = h.lastSearchRef.term /\ caseSensitive # h.lastSearchRef.caseSensitive
    THEN performHighlight(h, term, TRUE, FALSE, count)
    ELSE [h EXCEPT !.pendingHighlights =
             Append(@, [term |-> term, caseSensitive |-> caseSensitive,
                        current |-> TRUE, remaining |-> DebounceMs,
                        superseded |-> FALSE])]

\* highlighterRef.current is destroyed or replaced: the closures of the
\* pending timers keep the old highlighter.
Orphan(pending) ==
    [k \in 1..Len(pending) |-> [pending[k] EXCEPT !.current = FALSE]]

\* A pending pass is superseded when another term is entered less than
\* 150 ms after it was scheduled.
Supersede(pending, term) ==
    [k \in 1..Len(pending) |->
        IF pending[k].remaining > 0 /\ term # "" /\ pending[k].term # term
        THEN [pending[k] EXCEPT !.superseded = TRUE]
        ELSE pending[k]]

\* handleSearch (lines 105-161); the container is rendered whenever the
\* search bar that calls handleSearch is.
handleSearch(h, term, caseSensitive, count) ==
    LET isCaseChange == /\ term = h.lastSearchRef.term
                        /\ caseSensitive # h.lastSearchRef.caseSensitive
        h1 == [h EXCEPT !.lastSearchRef = [term |-> term, caseSensitive |-> caseSensitive],
                        !.pendingHighlights = Supersede(@, term)]
    IN IF term = ""
       THEN [h1 EXCEPT !.internalSearchResults = NoResults, !.currentMatch = -1]
       ELSE IF isCaseChange /\ h.highlighterRef
            THEN debouncedHighlight(h1, term, caseSensitive, count)
            ELSE debouncedHighlight([h1 EXCEPT !.highlighterRef = TRUE,
                                               !.currentMatch = -1,
                                               !.highlighterSearch =
                                                   [term |-> term,
                                                    caseSensitive |-> caseSensitive],
                                               !.pendingHighlights = Orphan(@)],
                                    term, caseSensitive, count)

\* handleCloseSearch (lines 231-244).
handleCloseSearch(h) ==
    [h EXCEPT !.internalSearchResults = NoResults,
              !.lastSearchRef = [term |-> "", caseSensitive |-> FALSE],
              !.highlighterRef = FALSE,
              !.highlighterSearch = [term |-> "", caseSensitive |-> FALSE],
              !.currentMatch = -1,
              !.pendingHighlights =
                  IF h.highlighterRef THEN Orphan(@) ELSE @]

\* handleNavigate (lines 167-196) without the onNavigate prop: internal
\* navigation over internalSearchResults.
NavigateWithoutWrap(h, direction) ==
    IF h.internalSearchResults.count = 0 \/ ~h.highlighterRef THEN h
    ELSE LET r == h.internalSearchResults
             newIndex == IF direction = "next" THEN r.currentIndex + 1
                         ELSE r.currentIndex - 1
         IN [h EXCEPT !.internalSearchResults = [r EXCEPT !.currentIndex = newIndex],
                      !.currentMatch = newIndex - 1,
                      !.lastNavigate = [direction |-> direction, from |-> r.currentIndex]]
handleNavigate(h, direction) ==
    IF h.internalSearchResults.count = 0 \/ ~h.highlighterRef THEN h
    ELSE LET r == h.internalSearchResults
             newIndex == IF direction = "next" THEN (r.currentIndex % r.count) + 1
                         ELSE IF r.currentIndex = 1 THEN r.count
                         ELSE r.currentIndex - 1
         IN [h EXCEPT !.internalSearchResults = [r EXCEPT !.currentIndex = newIndex],
                      !.currentMatch = newIndex - 1,
                      !.lastNavigate = [direction |-> direction, from |-> r.currentIndex]]

\* The search bar reports a new term or case setting.
Search ==
    \E term \in SearchTerms, caseSensitive \in BOOLEAN, count \in 0..MaxMatches :
        LET h == handleSearch(View, term, caseSensitive, count)
        IN /\ [term |-> term, caseSensitive |-> caseSensitive] # lastSearchRef
           /\ Len(h.pendingHighlights) <= MaxPending
           /\ CommitView(h)

\* The search bar is closed.
CloseSearch ==
    /\ highlighterRef \/ lastSearchRef.term # ""
    /\ CommitView(handleCloseSearch(View))

\* The callback handleSearch gives to new SearchHighlighter (lines 143-156),
\* called by the highlighter with its number of matches.
onMatchesChange(h, count) ==
    IF h.lastSearchRef = h.highlighterSearch
    THEN [h EXCEPT !.internalSearchResults =
             IF count > 0 THEN [currentIndex |-> 1, count |-> count]
             ELSE NoResults]
    ELSE h

\* The live highlighter reports a number of matches.
HighlighterReports ==
    /\ highlighterRef
    /\ \E count \in 0..MaxMatches :
           LET h == onMatchesChange(View, count)
           IN /\ h.internalSearchResults # internalSearchResults
              /\ CommitView(h)

\* Find next / find previous (the search bar's buttons, the find-next and
\* find-previous events, Cmd-G).
Navigate ==
    \E direction \in {"next", "prev"} :
        LET h == handleNavigate(View, direction)
        IN /\ h.lastNavigate # NoNavigate
           /\ CommitView(h)

\* A debounce timer expires and runs performHighlight.
HighlightTimerFires ==
    /\ pendingHighlights # <<>>
    /\ Head(pendingHighlights).remaining = 0
    /\ \E count \in 0..MaxMatches :
           LET t == Head(pendingHighlights)
           IN CommitView(performHighlight(
                  [View EXCEPT !.pendingHighlights = Tail(@)],
                  t.term, t.current, t.superseded, count))

\* Time passes; a timer that is due fires first.
SearchTick ==
    /\ pendingHighlights # <<>>
    /\ \A k \in 1..Len(pendingHighlights) : pendingHighlights[k].remaining > 0
    /\ pendingHighlights' =
           [k \in 1..Len(pendingHighlights) |->
               [pendingHighlights[k] EXCEPT !.remaining = @ - SearchTickMs]]
    /\ UNCHANGED <<lastSearchRef, highlighterRef, internalSearchResults, lastPass,
                   currentMatch, lastNavigate, highlighterSearch>>

HighlightInit ==
    /\ lastSearchRef = [term |-> "", caseSensitive |-> FALSE]
    /\ highlighterRef = FALSE
    /\ internalSearchResults = NoResults
    /\ pendingHighlights = <<>>
    /\ lastPass = [ran |-> FALSE, term |-> "", superseded |-> FALSE, stale |-> FALSE]
    /\ currentMatch = -1
    /\ lastNavigate = NoNavigate
    /\ highlighterSearch = [term |-> "", caseSensitive |-> FALSE]

HighlightNext ==
    \/ Search
    \/ CloseSearch
    \/ HighlightTimerFires
    \/ SearchTick
    \/ Navigate
    \/ HighlighterReports

\* C8 as stated: no highlight pass runs for a term that was replaced by
\* another term less than 150 ms after it was entered.
C8_OnlyLastTermHighlighted == ~(lastPass.ran /\ lastPass.superseded)

\* C11: while internal search results exist, 1 <= currentIndex <= count;
\* 'next' from the last match wraps to 1 and otherwise advances by one,
\* 'prev' from match 1 wraps to count and otherwise goes back by one, and
\* every navigation sets the highlighter's current match to currentIndex - 1.
C11_NavigationWraps ==
    LET r == internalSearchResults
    IN /\ r.count > 0 => (1 <= r.currentIndex /\ r.currentIndex <= r.count)
       /\ lastNavigate.direction = "next" =>
              /\ r.currentIndex = IF lastNavigate.from = r.count THEN 1
                                  ELSE lastNavigate.from + 1
              /\ currentMatch = r.currentIndex - 1
       /\ lastNavigate.direction = "prev" =>
              /\ r.currentIndex = IF lastNavigate.from = 1 THEN r.count
                                  ELSE lastNavigate.from - 1
              /\ currentMatch = r.currentIndex - 1

\* 'next' has just wrapped from the last of several matches to the first.
C11_Witness ==
    /\ lastNavigate.direction = "next"
    /\ internalSearchResults.count > 1
    /\ lastNavigate.from = internalSearchResults.count
    /\ internalSearchResults.currentIndex = 1

(***************************************************************************)
(* ToastProvider and ToastItem                                             *)
(***************************************************************************)
DefaultDuration == 3000
ExitDelay == 200

\* Time advances in steps of half the exit delay.
ToastTickMs == ExitDelay \div 2

\* duration of a new toast: 0 stands for an absent duration.
Durations == {0, 5 * ToastTickMs}

\* States useExtensionToast passes to updateToast (useExtensionToast.ts:37).
UpdateStates == {"success", "error"}

SinceCap == DefaultDuration + ExitDelay + ToastTickMs

NoRemoval == [removed |-> FALSE, state |-> "loading", duration |-> 0, since |-> 0,
              updates |-> 0]

\* The provider's list and the timers of its items as one record.
Provider ==
    [toasts |-> toasts, hideTimers |-> hideTimers, exitTimers |-> exitTimers,
     nextToastId |-> nextToastId, lastRemoval |-> lastRemoval]

CommitProvider(t) ==
    /\ toasts' = t.toasts
    /\ hideTimers' = t.hideTimers
    /\ exitTimers' = t.exitTimers
    /\ nextToastId' = t.nextToastId
    /\ lastRemoval' = t.lastRemoval

ToastIds(t) == {t.toasts[k].id : k \in 1..Len(t.toasts)}

\* toast.duration || 3000
EffectiveDuration(duration) == IF duration = 0 THEN DefaultDuration ELSE duration

\* The auto-hide effect of a ToastItem (lines 49-59) when it runs for a toast
\* in the given state: the timer is armed unless the toast is loading.
AutoHideAlsoWhenLoading(t, id, state, duration) ==
    [t EXCEPT !.hideTimers =
        @ \cup {[id |-> id, remaining |-> EffectiveDuration(duration)]}]
AutoHideEffect(t, id, state, duration) ==
    IF state # "loading"
    THEN [t EXCEPT !.hideTimers =
             @ \cup {[id |-> id, remaining |-> EffectiveDuration(duration)]}]
    ELSE t

\* The cleanup of the effect: clearTimeout(timer).
AutoHideCleanup(t, id) ==
    [t EXCEPT !.hideTimers = {h \in @ : h.id # id}]

\* showToast (lines 115-121) and the mount of the new ToastItem.
showToast(t, state, duration) ==
    LET id == t.nextToastId
        t1 == [t EXCEPT !.toasts = Append(@, [id |-> id, state |-> state,
                                              duration |-> duration,
                                              isExiting |-> FALSE, since |-> 0,
                                              updates |-> 0]),
                        !.nextToastId = @ + 1]
    IN AutoHideEffect(t1, id, state, duration)

\* updateToast (lines 123-130); the effect of the item runs again only when
\* toast.state changed.
updateToast(t, id, state) ==
    IF id \notin ToastIds(t) THEN t
    ELSE LET old == CHOOSE x \in {t.toasts[k] : k \in 1..Len(t.toasts)} : x.id = id
             t1 == [t EXCEPT !.toasts =
                        [k \in 1..Len(@) |->
                            IF @[k].id = id
                            THEN [@[k] EXCEPT !.state = state,
                                              !.since = IF state = old.state THEN @ ELSE 0,
                                              !.updates = IF @ < 2 THEN @ + 1 ELSE @]
                            ELSE @[k]]]
         IN IF state = old.state THEN t1
            ELSE AutoHideEffect(AutoHideCleanup(t1, id), id, state, old.duration)

\* hideToast and removeToast (lines 132-138) and the unmount of the item.
removeToast(t, id) ==
    AutoHideCleanup([t EXCEPT !.toasts = SelectSeq(@, LAMBDA x : x.id # id)], id)

\* The auto-hide timeout fires (lines 51-54): the item starts its exit
\* animation and arms the removal.
hideTimerCallback(t, id) ==
    [t EXCEPT !.hideTimers = {h \in @ : h.id # id},
              !.toasts = [k \in 1..Len(@) |->
                             IF @[k].id = id THEN [@[k] EXCEPT !.isExiting = TRUE]
                             ELSE @[k]],
              !.exitTimers = Append(@, [id |-> id, remaining |-> ExitDelay])]

\* The exit timeout fires (line 53): onRemove(toast.id).
exitTimerCallback(t, id) ==
    LET present == {t.toasts[k] : k \in 1..Len(t.toasts)}
        t1 == IF id \in ToastIds(t)
              THEN LET x == CHOOSE y \in present : y.id = id
                   IN [t EXCEPT !.lastRemoval =
                          [removed |-> TRUE, state |-> x.state,
                           duration |-> x.duration, since |-> x.since,
                           updates |-> x.updates]]
              ELSE t
    IN removeToast(t1, id)

ShowToast ==
    \E duration \in Durations :
        /\ nextToastId <= MaxToasts
        /\ CommitProvider(showToast(Provider, "loading", duration))

UpdateToast ==
    \E id \in ToastIds(Provider), state \in UpdateStates :
        CommitProvider(updateToast(Provider, id, state))

HideToast ==
    \E id \in ToastIds(Provider) :
        CommitProvider(removeToast(Provider, id))

HideTimerFires ==
    \E h \in hideTimers :
        /\ h.remaining = 0
        /\ CommitProvider(hideTimerCallback(Provider, h.id))

ExitTimerFires ==
    /\ exitTimers # <<>>
    /\ Head(exitTimers).remaining = 0
    /\ CommitProvider(exitTimerCallback([Provider EXCEPT !.exitTimers = Tail(@)],
                                        Head(exitTimers).id))

\* Time passes; timers that are due fire first.
ToastTick ==
    /\ hideTimers # {} \/ exitTimers # <<>>
       \/ \E k \in 1..Len(toasts) : toasts[k].state # "loading"
    /\ \A h \in hideTimers : h.remaining > 0
    /\ \A k \in 1..Len(exitTimers) : exitTimers[k].remaining > 0
    /\ hideTimers' = {[h EXCEPT !.remaining = @ - ToastTickMs] : h \in hideTimers}
    /\ exitTimers' = [k \in 1..Len(exitTimers) |->
                         [exitTimers[k] EXCEPT !.remaining = @ - ToastTickMs]]
    /\ toasts' = [k \in 1..Len(toasts) |->
                     IF toasts[k].state # "loading" /\ toasts[k].since < SinceCap
                     THEN [toasts[k] EXCEPT !.since = @ + ToastTickMs]
                     ELSE toasts[k]]
    /\ toasts' # toasts \/ hideTimers' # hideTimers \/ exitTimers' # exitTimers
    /\ UNCHANGED <<nextToastId, lastRemoval>>

ToastInit ==
    /\ toasts = <<>>
    /\ hideTimers = {}
    /\ exitTimers = <<>>
    /\ nextToastId = 1
    /\ lastRemoval = NoRemoval

ToastNext ==
    \/ ShowToast
    \/ UpdateToast
    \/ HideToast
    \/ HideTimerFires
    \/ ExitTimerFires
    \/ ToastTick

\* C10: a loading toast has no timer and no timer removes a toast that is
\* loading; a toast updated once, to success or error, stays no longer than
\* its duration (3000 ms when it has none) plus the 200 ms exit delay, and
\* the timer removes it exactly then.
C10_AutoDismiss ==
    /\ \A k \in 1..Len(toasts) :
           toasts[k].state = "loading" =>
               /\ \A h \in hideTimers : h.id # toasts[k].id
               /\ \A j \in 1..Len(exitTimers) : exitTimers[j].id # toasts[k].id
    /\ lastRemoval.removed => lastRemoval.state # "loading"
    /\ \A k \in 1..Len(toasts) :
           (toasts[k].state # "loading" /\ toasts[k].updates = 1) =>
               toasts[k].since <= EffectiveDuration(toasts[k].duration) + ExitDelay
    /\ (lastRemoval.removed /\ lastRemoval.updates = 1) =>
           lastRemoval.since = EffectiveDuration(lastRemoval.duration) + ExitDelay

C10_Witness ==
    /\ lastRemoval.removed
    /\ lastRemoval.updates = 1
    /\ lastRemoval.duration = 0
    /\ lastRemoval.since = DefaultDuration + ExitDelay
    /\ toasts = <<>>

(***************************************************************************)
(* ExtensionMentionPopover: fuzzyMatch                                     *)
(* Strings are sequences of one-character strings; indices are 0-based as  *)
(* in the source.  Scores are kept in twentieths so that                   *)
(* text.length * 0.05 is an integer.                                       *)
(***************************************************************************)
\* Characters of the patterns and texts fuzzyMatch is applied to.  "I." is
\* U+0130 (capital I with dot above), "U+0307" the combining dot above.
FuzzyChars == {"a", "A", "b", "/", "I."}

\* String.prototype.toLowerCase on one character: U+0130 becomes the two
\* code units U+0069 U+0307.
LowerOf(c) ==
    CASE c = "A" -> <<"a">>
      [] c = "I." -> <<"i", "U+0307">>
      [] OTHER -> <<c>>

RECURSIVE toLowerCase(_)
toLowerCase(text) ==
    IF text = <<>> THEN <<>> ELSE LowerOf(Head(text)) \o toLowerCase(Tail(text))

\* String.prototype.includes
Includes(text, part) ==
    \E k \in 0..(Len(text) - Len(part)) : SubSeq(text, k + 1, k + Len(part)) = part

Twentieths(n) == 20 * n

WordBoundaries == {"/", "_", "-", ".", " "}

\* The for loop of fuzzyMatch (lines 68-91), from index i on.
RECURSIVE FuzzyLoop(_, _, _, _)
FuzzyLoop(textLower, patternLower, i, acc) ==
    IF ~(i < Len(textLower) /\ acc.patternIndex < Len(patternLower)) THEN acc
    ELSE IF textLower[i + 1] = patternLower[acc.patternIndex + 1]
         THEN LET consecutiveMatches == acc.consecutiveMatches + 1
                  boundary == i = 0 \/ textLower[i] \in WordBoundaries
              IN FuzzyLoop(textLower, patternLower, i + 1,
                     [patternIndex |-> acc.patternIndex + 1,
                      consecutiveMatches |-> consecutiveMatches,
                      score |-> acc.score + Twentieths(consecutiveMatches * 3)
                                + (IF boundary THEN Twentieths(10) ELSE 0),
                      matches |-> Append(acc.matches, i)])
         ELSE FuzzyLoop(textLower, patternLower, i + 1,
                        [acc EXCEPT !.consecutiveMatches = 0])

\* fuzzyMatch (lines 57-106).
fuzzyMatch(pattern, text) ==
    IF pattern = <<>> THEN [score |-> 0, matches |-> <<>>]
    ELSE LET patternLower == toLowerCase(pattern)
             textLower == toLowerCase(text)
             acc == FuzzyLoop(textLower, patternLower, 0,
                        [patternIndex |-> 0, consecutiveMatches |-> 0,
                         score |-> 0, matches |-> <<>>])
         IN IF acc.patternIndex = Len(patternLower)
            THEN [score |-> acc.score - Len(text)
                            + (IF Includes(textLower, patternLower)
                               THEN Twentieths(20) ELSE 0),
                  matches |-> acc.matches]
            ELSE [score |-> Twentieths(-1), matches |-> <<>>]

\* All strings over a set of characters up to a length.
RECURSIVE StringsUpTo(_, _)
StringsUpTo(chars, n) ==
    IF n = 0 THEN {<<>>}
    ELSE LET shorter == StringsUpTo(chars, n - 1)
         IN shorter \cup {Append(s, c) : s \in shorter, c \in chars}

\* fuzzyMatch is called with the pattern and the text of the run.
FuzzyCall ==
    /\ ~fuzzyCalled
    /\ fuzzyCalled' = TRUE
    /\ fuzzyResult' = fuzzyMatch(fuzzyPattern, fuzzyText)
    /\ UNCHANGED <<fuzzyPattern, fuzzyText>>

FuzzyInit ==
    /\ fuzzyPattern \in StringsUpTo(FuzzyChars, MaxPatternLen)
    /\ fuzzyText \in StringsUpTo(FuzzyChars, MaxTextLen)
    /\ fuzzyCalled = FALSE
    /\ fuzzyResult = [score |-> 0, matches |-> <<>>]

FuzzyNext == FuzzyCall

\* Two characters are equal ignoring case.
SameIgnoringCase(c, d) == LowerOf(c) = LowerOf(d)

\* pattern is a subsequence of text ignoring case, embedded at the 0-based
\* strictly increasing positions m.
EmbedsAt(pattern, text, m) ==
    /\ Len(m) = Len(pattern)
    /\ \A k \in 1..Len(m) :
           /\ m[k] >= 0 /\ m[k] < Len(text)
           /\ SameIgnoringCase(text[m[k] + 1], pattern[k])
           /\ k > 1 => m[k - 1] < m[k]

RECURSIVE IsSubsequence(_, _)
IsSubsequence(pattern, text) ==
    IF pattern = <<>> THEN TRUE
    ELSE IF text = <<>> THEN FALSE
    ELSE IF SameIgnoringCase(Head(text), Head(pattern))
         THEN IsSubsequence(Tail(pattern), Tail(text))
         ELSE IsSubsequence(pattern, Tail(text))

\* C16 as stated: for a non-empty pattern, fuzzyMatch reports a match (one
\* index per pattern character, strictly increasing, each pointing at a
\* character of text equal to the pattern character ignoring case) exactly
\* when pattern is a case-insensitive subsequence of text; otherwise it
\* returns score -1 with no match indices.
C16_FuzzyMatchSubsequence ==
    (fuzzyCalled /\ fuzzyPattern # <<>>) =>
        IF IsSubsequence(fuzzyPattern, fuzzyText)
        THEN EmbedsAt(fuzzyPattern, fuzzyText, fuzzyResult.matches)
        ELSE fuzzyResult = [score |-> Twentieths(-1), matches |-> <<>>]

(***************************************************************************)
(* ChatInput mention detection and ExtensionMentionPopover                 *)
(***************************************************************************)
ResultCap == 10     \* .slice(0, 10) of the scored results
RecentFiles == 5    \* allFiles.slice(0, 5) for an empty query

\* Sizes of the lists filteredItems is computed for on its own: as many
\* files as an empty query shows, and the fewest enabled extensions that
\* together with them exceed the cap.
MaxFiles == RecentFiles
MaxExtensions == ResultCap - RecentFiles + 1

\* Characters the user can have in the text area.
MentionChars == {"@", " ", "\n", "a"}

\* String.prototype.slice(from, to) and slice(from) for 0 <= from.
Slice(text, from, to) == SubSeq(text, from + 1, IF to < Len(text) THEN to ELSE Len(text))

SliceFrom(text, from) == SubSeq(text, from + 1, Len(text))

\* String.prototype.lastIndexOf for one character, -1 when absent.
LastIndexOf(text, c) ==
    LET at == {k \in 1..Len(text) : text[k] = c}
    IN IF at = {} THEN -1 ELSE (CHOOSE k \in at : \A j \in at : j <= k) - 1

\* String.prototype.trim on character sequences.
RECURSIVE TrimStart(_)
TrimStart(text) ==
    IF text # <<>> /\ Head(text) \in {" ", "\n"} THEN TrimStart(Tail(text)) ELSE text

RECURSIVE TrimEnd(_)
TrimEnd(text) ==
    IF text # <<>> /\ text[Len(text)] \in {" ", "\n"}
    THEN TrimEnd(SubSeq(text, 1, Len(text) - 1)) ELSE text

TrimText(text) == TrimEnd(TrimStart(text))

\* Names of the k-th extension and of the k-th file of the working directory.
LetterName(k) == [i \in 1..((k + 1) \div 2) |-> IF k % 2 = 1 THEN "a" ELSE "b"]

ExtensionEntry(k) == [name |-> LetterName(k), title |-> LetterName(k), enabled |-> TRUE]

WorkingDir == <<"w">>

FileItem(k) ==
    LET fileName == LetterName(k) \o <<".", "a">>
    IN [path |-> WorkingDir \o <<"/">> \o fileName, name |-> fileName,
        relativePath |-> fileName]

\* getFriendlyTitle(ext): the display name of an extension.
getFriendlyTitle(ext) == ext.title

NoMention == [kind |-> "none", type |-> "", value |-> <<>>, text |-> <<>>,
              mentionStart |-> -1, query |-> <<>>]

\* The mention state of ChatInput and of the popover as one record.
Mention ==
    [textAreaValue |-> textAreaValue, cursorPosition |-> cursorPosition,
     mentionPopover |-> mentionPopover, selectedFiles |-> selectedFiles,
     extensionsList |-> extensionsList, allFiles |-> allFiles,
     isLoadingFiles |-> isLoadingFiles, lastMention |-> NoMention]

CommitMention(m) ==
    /\ textAreaValue' = m.textAreaValue
    /\ cursorPosition' = m.cursorPosition
    /\ mentionPopover' = m.mentionPopover
    /\ selectedFiles' = m.selectedFiles
    /\ extensionsList' = m.extensionsList
    /\ allFiles' = m.allFiles
    /\ isLoadingFiles' = m.isLoadingFiles
    /\ lastMention' = m.lastMention

\* checkForMention (lines 687-720) applied to the popover state.
CheckForMentionSpaceOnly(popover, text, position) ==
    LET beforeCursor == Slice(text, 0, position)
        lastAtIndex == LastIndexOf(beforeCursor, "@")
        afterAt == SliceFrom(beforeCursor, lastAtIndex + 1)
    IN IF lastAtIndex = -1 THEN [popover EXCEPT !.isOpen = FALSE]
       ELSE IF \E k \in 1..Len(afterAt) : afterAt[k] = " "
            THEN [popover EXCEPT !.isOpen = FALSE]
            ELSE [popover EXCEPT !.isOpen = TRUE, !.query = afterAt,
                                 !.mentionStart = lastAtIndex, !.selectedIndex = 0]
checkForMention(popover, text, position) ==
    LET beforeCursor == Slice(text, 0, position)
        lastAtIndex == LastIndexOf(beforeCursor, "@")
        afterAt == SliceFrom(beforeCursor, lastAtIndex + 1)
    IN IF lastAtIndex = -1 THEN [popover EXCEPT !.isOpen = FALSE]
       ELSE IF \E k \in 1..Len(afterAt) : afterAt[k] \in {" ", "\n"}
            THEN [popover EXCEPT !.isOpen = FALSE]
            ELSE [popover EXCEPT !.isOpen = TRUE, !.query = afterAt,
                                 !.mentionStart = lastAtIndex, !.selectedIndex = 0]

\* enabledExtensions (lines 118-120).
enabledExtensions(list) == SelectSeq(list, LAMBDA ext : ext.enabled)

\* The better of two matches as the source picks it: the first one only
\* when its score is strictly greater.
BestMatch(first, second) == IF first.score > second.score THEN first ELSE second

\* Array.prototype.sort by descending matchScore; the sort is stable.
RECURSIVE SortByScore(_)
SortByScore(items) ==
    IF items = <<>> THEN <<>>
    ELSE LET n == Len(items)
             item == items[n]
             sorted == SortByScore(SubSeq(items, 1, n - 1))
             ahead == SelectSeq(sorted, LAMBDA x : x.matchScore >= item.matchScore)
             behind == SelectSeq(sorted, LAMBDA x : x.matchScore < item.matchScore)
         IN ahead \o <<item>> \o behind

ExtensionItem(ext, score) ==
    [type |-> "extension", value |-> <<"@">> \o ext.name, matchScore |-> score]

FileMentionItem(file, score) ==
    [type |-> "file", value |-> file.path, matchScore |-> score]

\* filteredItems (lines 163-240).
filteredItems(query, list, files) ==
    LET enabled == enabledExtensions(list)
    IN IF TrimText(query) = <<>>
       THEN [k \in 1..Len(enabled) |-> ExtensionItem(enabled[k], Twentieths(100))]
            \o [k \in 1..(IF Len(files) < RecentFiles THEN Len(files) ELSE RecentFiles) |->
                   FileMentionItem(files[k], Twentieths(50))]
       ELSE LET extMatch(ext) == BestMatch(fuzzyMatch(query, getFriendlyTitle(ext)),
                                           fuzzyMatch(query, ext.name))
                fileMatch(file) == BestMatch(fuzzyMatch(query, file.name),
                                             fuzzyMatch(query, file.relativePath))
                extScored == [k \in 1..Len(enabled) |->
                                 [ext |-> enabled[k], best |-> extMatch(enabled[k])]]
                fileScored == [k \in 1..Len(files) |->
                                  [file |-> files[k], best |-> fileMatch(files[k])]]
                extHits == SelectSeq(extScored, LAMBDA x : x.best.score > 0)
                fileHits == SelectSeq(fileScored, LAMBDA x : x.best.score > 0)
                results ==
                    [k \in 1..Len(extHits) |->
                        ExtensionItem(extHits[k].ext,
                                      extHits[k].best.score + Twentieths(10))]
                    \o [k \in 1..Len(fileHits) |->
                           FileMentionItem(fileHits[k].file, fileHits[k].best.score)]
                sorted == SortByScore(results)
            IN SubSeq(sorted, 1, IF Len(sorted) < ResultCap THEN Len(sorted) ELSE ResultCap)

ItemsOf(m) == filteredItems(m.mentionPopover.query, m.extensionsList, m.allFiles)

\* The effects of the popover after a render: the file-loading effect
\* (lines 123-160) starts a load, the auto-adjust effect (lines 290-295)
\* clamps selectedIndex (which only an index above 0 can need).
PopoverEffects(m) ==
    LET n == Len(ItemsOf(m))
        p == m.mentionPopover
    IN [m EXCEPT !.isLoadingFiles =
                     @ \/ (p.isOpen /\ m.allFiles = <<>> /\ ~m.isLoadingFiles),
                 !.mentionPopover.selectedIndex =
                     IF @ > 0 /\ @ >= n /\ n > 0 THEN n - 1 ELSE @]

\* handleChange (lines 673-685): the new text and the mention check.
handleChange(m, val, position) ==
    [m EXCEPT !.textAreaValue = val,
              !.cursorPosition = position,
              !.mentionPopover = checkForMention(@, val, position),
              !.lastMention = [NoMention EXCEPT !.kind = "change"]]

\* handleMentionSelect (lines 1177-1226) with the cursor placement of its
\* setTimeout.
handleMentionSelect(m, value, type) ==
    LET p == m.mentionPopover
        beforeMention == Slice(m.textAreaValue, 0, p.mentionStart)
        afterMention == SliceFrom(m.textAreaValue, p.mentionStart + 1 + Len(p.query))
        ghost == [kind |-> "select", type |-> type, value |-> value,
                  text |-> m.textAreaValue, mentionStart |-> p.mentionStart,
                  query |-> p.query]
    IN IF type = "file"
       THEN [m EXCEPT !.selectedFiles = Append(@, value),
                      !.textAreaValue = beforeMention \o afterMention,
                      !.mentionPopover.isOpen = FALSE,
                      !.cursorPosition = Len(beforeMention),
                      !.lastMention = ghost]
       ELSE [m EXCEPT !.textAreaValue = beforeMention \o value \o afterMention,
                      !.mentionPopover.isOpen = FALSE,
                      !.cursorPosition = Len(beforeMention) + Len(value),
                      !.lastMention = ghost]

\* selectItem (lines 242-251); items is the filteredItems of its closure.
selectItem(m, items, index) ==
    IF index >= 0 /\ index < Len(items)
    THEN handleMentionSelect(m, items[index + 1].value, items[index + 1].type)
    ELSE m

MentionInBounds(m) ==
    /\ Len(m.textAreaValue) <= MaxLen
    /\ Len(m.selectedFiles) <= MaxSelected

\* The user types a character at some position of the text area; the
\* cursor ends behind it.
MentionType ==
    /\ Len(textAreaValue) < MaxLen
    /\ \E at \in 0..Len(textAreaValue), c \in MentionChars :
           LET val == Slice(textAreaValue, 0, at) \o <<c>> \o SliceFrom(textAreaValue, at)
           IN CommitMention(PopoverEffects(handleChange(Mention, val, at + 1)))

\* The user deletes the character before some position; the cursor ends
\* where it was.
MentionDelete ==
    \E at \in 1..Len(textAreaValue) :
        LET val == Slice(textAreaValue, 0, at - 1) \o SliceFrom(textAreaValue, at)
        IN CommitMention(PopoverEffects(handleChange(Mention, val, at - 1)))

\* Escape in the text area while the popover is open (handleKeyDown,
\* lines 1075-1080).
MentionEscape ==
    /\ mentionPopover.isOpen
    /\ CommitMention(PopoverEffects([Mention EXCEPT !.mentionPopover.isOpen = FALSE]))

\* ArrowDown / ArrowUp while the popover is open (lines 264-271).
MentionArrow ==
    /\ mentionPopover.isOpen
    /\ \E down \in BOOLEAN :
           LET n == Len(ItemsOf(Mention))
               sel == mentionPopover.selectedIndex
               index == IF down THEN (IF sel + 1 < n - 1 THEN sel + 1 ELSE n - 1)
                        ELSE (IF sel - 1 > 0 THEN sel - 1 ELSE 0)
           IN /\ index # sel
              /\ CommitMention(PopoverEffects(
                     [Mention EXCEPT !.mentionPopover.selectedIndex = index]))

\* Enter while the popover is open, or a click on one of its items.
MentionSelectItem ==
    /\ mentionPopover.isOpen
    /\ LET items == ItemsOf(Mention)
       IN \E index \in {mentionPopover.selectedIndex} \cup 0..(Len(items) - 1) :
              LET m == selectItem(Mention, items, index)
              IN /\ m.lastMention.kind = "select"
                 /\ MentionInBounds(m)
                 /\ CommitMention(PopoverEffects(m))

\* window.electron.listFiles resolves with the files of the working
\* directory (at most 20 are kept, line 141) or fails (no files).
FilesLoaded ==
    /\ isLoadingFiles
    /\ \E n \in {0, NumFiles} :
           CommitMention(PopoverEffects(
               [Mention EXCEPT !.allFiles = [k \in 1..n |-> FileItem(k)],
                               !.isLoadingFiles = FALSE]))

MentionInit ==
    /\ textAreaValue = <<>>
    /\ cursorPosition = 0
    /\ mentionPopover = [isOpen |-> FALSE, query |-> <<>>, mentionStart |-> -1,
                         selectedIndex |-> 0]
    /\ selectedFiles = <<>>
    /\ \E n \in {0, NumExtensions} :
           extensionsList = [k \in 1..n |-> ExtensionEntry(k)]
    /\ allFiles = <<>>
    /\ isLoadingFiles = FALSE
    /\ lastMention = NoMention

MentionNext ==
    \/ MentionType
    \/ MentionDelete
    \/ MentionEscape
    \/ MentionArrow
    \/ MentionSelectItem
    \/ FilesLoaded

\* The text before the cursor ends in an open mention: the position of its
\* '@' (1-based), or 0 when there is none.
OpenMentionAt(text, position) ==
    LET before == SubSeq(text, 1, position)
        ats == {k \in 1..Len(before) :
                   /\ before[k] = "@"
                   /\ \A j \in (k + 1)..Len(before) : before[j] \notin {"@", " ", "\n"}}
    IN IF ats = {} THEN 0 ELSE CHOOSE k \in ats : TRUE

\* C12: after a change of the chat input the mention popover is open exactly
\* when the text before the cursor contains an '@' with no space or newline
\* between the last '@' and the cursor; when it is open its query is the
\* text between that '@' and the cursor and the selected index is 0.
C12_MentionOpensOnAt ==
    lastMention.kind = "change" =>
        LET at == OpenMentionAt(textAreaValue, cursorPosition)
        IN /\ mentionPopover.isOpen <=> at > 0
           /\ mentionPopover.isOpen =>
                  /\ mentionPopover.query = SubSeq(textAreaValue, at + 1, cursorPosition)
                  /\ mentionPopover.selectedIndex = 0

\* The user has typed a character after an '@' and the popover is open with
\* that character as its query.
C12_Witness ==
    /\ lastMention.kind = "change"
    /\ mentionPopover.isOpen
    /\ mentionPopover.query = <<"a">>

\* C13 as stated: selecting a file in the popover puts the file's full path
\* into the text in place of the '@query' fragment.
C13_FilePathInserted ==
    (lastMention.kind = "select" /\ lastMention.type = "file") =>
        textAreaValue =
            SubSeq(lastMention.text, 1, lastMention.mentionStart)
            \o lastMention.value
            \o SubSeq(lastMention.text,
                      lastMention.mentionStart + 2 + Len(lastMention.query),
                      Len(lastMention.text))

(***************************************************************************)
(* filteredItems of the popover on its own                                 *)
(***************************************************************************)
\* The popover renders with a query, a list of extensions and loaded files.
ItemsRender ==
    /\ ~itemsRendered
    /\ itemsRendered' = TRUE
    /\ itemsOffered' =
           filteredItems(itemsQuery,
                         [k \in 1..itemsExtensions |-> ExtensionEntry(k)],
                         [k \in 1..itemsFiles |-> FileItem(k)])
    /\ UNCHANGED <<itemsQuery, itemsExtensions, itemsFiles>>

ItemsInit ==
    /\ itemsQuery \in StringsUpTo({"a", "b"}, MaxQueryLen)
    /\ itemsExtensions \in 0..MaxExtensions
    /\ itemsFiles \in 0..MaxFiles
    /\ itemsRendered = FALSE
    /\ itemsOffered = <<>>

ItemsNext == ItemsRender

\* C14 as stated: the popover never offers more than 10 items, for any
\* query and any number of enabled extensions and loaded files.
C14_AtMostTenItems == Len(itemsOffered) <= ResultCap

(***************************************************************************)
(* useAgent and Hub                                                        *)
(* Sessions are numbers: 0 stands for null / undefined, StoredSession is a *)
(* session that can be resumed, startAgent returns nextSessionId.  A call  *)
(* of loadCurrentChat is an entry of loads: an initialization it started   *)
(* (kind "init"), a resume of the active session (kind "resume"), or the   *)
(* pending initialization it was handed (kind "join").                     *)
(***************************************************************************)
StoredSession == 1

NoHubSubmit == [reset |-> FALSE, calls |-> <<>>, inFlight |-> 0, previous |-> 0,
                load |-> 0]

\* The hook's state, the calls made to it and the Hub's navigation as one
\* record.
Agent ==
    [agentState |-> agentState, sessionId |-> sessionId,
     initPromiseRef |-> initPromiseRef, recipeFromAppConfig |-> recipeFromAppConfig,
     loads |-> loads, nextSessionId |-> nextSessionId, view |-> view,
     lastHubSubmit |-> lastHubSubmit]

CommitAgent(a) ==
    /\ agentState' = a.agentState
    /\ sessionId' = a.sessionId
    /\ initPromiseRef' = a.initPromiseRef
    /\ recipeFromAppConfig' = a.recipeFromAppConfig
    /\ loads' = a.loads
    /\ nextSessionId' = a.nextSessionId
    /\ view' = a.view
    /\ lastHubSubmit' = a.lastHubSubmit

\* resetChat (lines 58-63).
resetChat(a) ==
    [a EXCEPT !.sessionId = 0, !.agentState = "uninitialized",
              !.recipeFromAppConfig = FALSE]

\* handleMessageSubmit of Hub (lines 45-55).
handleMessageSubmit(a, message) ==
    IF Trim(message) # ""
    THEN LET r == resetChat(a)
         IN [r EXCEPT !.view = "pair",
                      !.lastHubSubmit =
                          [reset |-> TRUE, calls |-> <<"resetChat", "setView">>,
                           inFlight |-> a.initPromiseRef, previous |-> a.sessionId,
                           load |-> 0]]
    ELSE a

\* currentChat without the check of lines 117-119.
CurrentChatAlwaysStarts(a, resume) ==
    LET id == Len(a.loads) + 1
    IN IF a.agentState = "initialized" /\ a.sessionId # 0
       THEN LET targetSessionId == IF resume # 0 THEN resume ELSE a.sessionId
            IN [a EXCEPT !.sessionId = targetSessionId,
                         !.loads = Append(@, [kind |-> "resume", pc |-> "agent",
                                              resume |-> targetSessionId,
                                              session |-> 0, target |-> 0])]
       ELSE [a EXCEPT !.agentState = "initializing",
                      !.initPromiseRef = id,
                      !.loads = Append(@, [kind |-> "init", pc |-> "read",
                                           resume |-> resume, session |-> 0,
                                           target |-> 0])]
\* currentChat (lines 66-232) up to its first await, called with
\* initContext.resumeSessionId = resume.
currentChat(a, resume) ==
    LET id == Len(a.loads) + 1
        probe == a.lastHubSubmit.reset /\ a.lastHubSubmit.load = 0 /\ resume = 0
        a1 == IF probe THEN [a EXCEPT !.lastHubSubmit.load = id] ELSE a
    IN IF a.agentState = "initialized" /\ a.sessionId # 0
       THEN LET targetSessionId == IF resume # 0 THEN resume ELSE a.sessionId
            IN [a1 EXCEPT !.sessionId = targetSessionId,
                          !.loads = Append(@, [kind |-> "resume", pc |-> "agent",
                                               resume |-> targetSessionId,
                                               session |-> 0, target |-> 0])]
       ELSE IF a.initPromiseRef # 0
            THEN [a1 EXCEPT !.loads = Append(@, [kind |-> "join", pc |-> "joined",
                                                 resume |-> resume, session |-> 0,
                                                 target |-> a.initPromiseRef])]
            ELSE [a1 EXCEPT !.agentState = "initializing",
                            !.initPromiseRef = id,
                            !.loads = Append(@, [kind |-> "init", pc |-> "read",
                                                 resume |-> resume, session |-> 0,
                                                 target |-> 0])]

\* The catch and finally blocks of the initialization (lines 215-225).
InitFails(a, id, providerError) ==
    [a EXCEPT !.agentState = IF providerError THEN "no_provider" ELSE "error",
              !.initPromiseRef = 0,
              !.loads[id].pc = "failed"]

\* The initialization continues after read() (lines 128-134).
initReadsProvider(a, id, configured) ==
    IF configured THEN [a EXCEPT !.loads[id].pc = "agent"]
    ELSE InitFails([a EXCEPT !.agentState = "no_provider"], id, FALSE)

\* The initialization continues after resumeAgent / startAgent
\* (lines 141-167).
initGetsSession(a, id) ==
    LET resume == a.loads[id].resume
        session == IF resume # 0 THEN resume ELSE a.nextSessionId
    IN [a EXCEPT !.sessionId = session,
                 !.nextSessionId = IF resume # 0 THEN @ ELSE @ + 1,
                 !.loads[id].session = session,
                 !.loads[id].pc = "system"]

\* The initialization finishes (lines 169-225).
initCompletes(a, id) ==
    [a EXCEPT !.agentState = "initialized",
              !.initPromiseRef = 0,
              !.loads[id].pc = "done"]

\* resumeAgent of the already-initialized branch resolves (lines 89-114).
resumeCompletes(a, id) ==
    [a EXCEPT !.loads[id].session = a.loads[id].resume, !.loads[id].pc = "done"]

\* The application asks for the current chat.
LoadCurrentChat ==
    /\ Len(loads) < MaxLoads
    /\ \E resume \in {0, StoredSession} :
           CommitAgent(currentChat(Agent, resume))

\* read() resolves.
InitReadsProvider ==
    \E id \in 1..Len(loads), configured \in BOOLEAN :
        /\ loads[id].kind = "init" /\ loads[id].pc = "read"
        /\ CommitAgent(initReadsProvider(Agent, id, configured))

\* resumeAgent or startAgent of an initialization resolves or rejects.
InitGetsSession ==
    \E id \in 1..Len(loads), outcome \in {"ok", "error", "provider"} :
        /\ loads[id].kind = "init" /\ loads[id].pc = "agent"
        /\ CommitAgent(IF outcome = "ok" THEN initGetsSession(Agent, id)
                       ELSE InitFails(Agent, id, outcome = "provider"))

\* The rest of an initialization resolves or rejects.
InitCompletes ==
    \E id \in 1..Len(loads), outcome \in {"ok", "error", "provider"} :
        /\ loads[id].kind = "init" /\ loads[id].pc = "system"
        /\ CommitAgent(IF outcome = "ok" THEN initCompletes(Agent, id)
                       ELSE InitFails(Agent, id, outcome = "provider"))

\* resumeAgent of an already-initialized load resolves or rejects.
ResumeCompletes ==
    \E id \in 1..Len(loads), ok \in BOOLEAN :
        /\ loads[id].kind = "resume" /\ loads[id].pc = "agent"
        /\ CommitAgent(IF ok THEN resumeCompletes(Agent, id)
                       ELSE [Agent EXCEPT !.loads[id].pc = "failed"])

\* The user submits the Hub's input.
HubSubmit ==
    /\ view = "hub"
    /\ \E message \in {"", "  ", "fix"} :
           LET a == handleMessageSubmit(Agent, message)
           IN /\ a # Agent
              /\ CommitAgent(a)

\* The user navigates back to the Hub.
ShowHub ==
    /\ view = "pair"
    /\ CommitAgent([Agent EXCEPT !.view = "hub"])

AgentInit ==
    /\ agentState = "uninitialized"
    /\ sessionId = 0
    /\ initPromiseRef = 0
    /\ recipeFromAppConfig \in BOOLEAN
    /\ loads = <<>>
    /\ nextSessionId = StoredSession + 1
    /\ view = "hub"
    /\ lastHubSubmit = NoHubSubmit

AgentNext ==
    \/ LoadCurrentChat
    \/ InitReadsProvider
    \/ InitGetsSession
    \/ InitCompletes
    \/ ResumeCompletes
    \/ HubSubmit
    \/ ShowHub

\* C15 as stated: a non-empty submission from Hub calls resetChat before it
\* navigates to 'pair', and the next chat load without a resumeSessionId
\* gets its session from its own startAgent call: it neither resumes the
\* previously active session nor is handed an initialization that was in
\* flight when resetChat was called.
C15_HubStartsFreshChat ==
    lastHubSubmit.reset =>
        /\ lastHubSubmit.calls = <<"resetChat", "setView">>
        /\ lastHubSubmit.load # 0 =>
               /\ loads[lastHubSubmit.load].kind = "init"
               /\ loads[lastHubSubmit.load].session \in {0} \cup (StoredSession + 1)..nextSessionId

\* The initializations that have not settled.
InFlight(ls) ==
    {id \in 1..Len(ls) : ls[id].kind = "init" /\ ls[id].pc \in {"read", "agent", "system"}}

\* C22: at most one initialization is in flight and initPromiseRef holds
\* it (null when none is); a loadCurrentChat call made while one is running
\* is handed that promise and starts no agent call of its own; after the
\* initialization has settled the ref is null, and a call made then, with
\* the agent not initialized, starts a new initialization.
C22_OneInitializationInFlight ==
    [][/\ Cardinality(InFlight(loads')) <= 1
       /\ InFlight(loads') = IF initPromiseRef' = 0 THEN {} ELSE {initPromiseRef'}
       /\ Len(loads') = Len(loads) + 1 =>
              LET call == loads'[Len(loads')]
              IN /\ initPromiseRef # 0 =>
                        /\ call.kind = "join" /\ call.target = initPromiseRef
                        /\ initPromiseRef' = initPromiseRef
                        /\ nextSessionId' = nextSessionId
                        /\ InFlight(loads') = InFlight(loads)
                 /\ (initPromiseRef = 0 /\ ~(agentState = "initialized" /\ sessionId # 0)) =>
                        /\ call.kind = "init"
                        /\ initPromiseRef' = Len(loads')]_agentVars

C22_Witness ==
    \E i, j, k \in 1..Len(loads) :
        /\ i < j /\ j < k
        /\ loads[i].kind = "init" /\ loads[i].pc = "failed"
        /\ loads[j].kind = "join" /\ loads[j].target = i
        /\ loads[k].kind = "init" /\ initPromiseRef = k

(***************************************************************************)
(* useExtensionToast and ExtensionsDropdown.handleToggle                   *)
(* The hook's toasts are the provider's: its operations act on the         *)
(* provider's list and timers above.                                       *)
(***************************************************************************)
MaxToggles == 2
CleanupDelay == 3500

\* Friendly titles of the extensions in the dropdown.
ToggledExtensions == {"developer", "memory"}

\* The hook's map, the dropdown's toggles and the provider as one record.
ExtensionToast ==
    [activeToasts |-> activeToasts, togglingExtensions |-> togglingExtensions,
     toggleCalls |-> toggleCalls, cleanupTimers |-> cleanupTimers,
     provider |-> Provider]

CommitExtensionToast(x) ==
    /\ activeToasts' = x.activeToasts
    /\ togglingExtensions' = x.togglingExtensions
    /\ toggleCalls' = x.toggleCalls
    /\ cleanupTimers' = x.cleanupTimers
    /\ CommitProvider(x.provider)

\* showExtensionLoading (lines 8-26).
showExtensionLoading(x, extensionName) ==
    LET existingToastId == x.activeToasts[extensionName]
        p1 == IF existingToastId # 0 THEN removeToast(x.provider, existingToastId)
              ELSE x.provider
        toastId == p1.nextToastId
    IN [x EXCEPT !.provider = showToast(p1, "loading", 0),
                 !.activeToasts[extensionName] = toastId]

\* updateExtensionToast (lines 28-48).
updateExtensionToast(x, extensionName, success) ==
    LET toastId == x.activeToasts[extensionName]
    IN IF toastId = 0 THEN x
       ELSE [x EXCEPT !.provider = updateToast(@, toastId,
                                               IF success THEN "success" ELSE "error"),
                      !.cleanupTimers = Append(@, [name |-> extensionName,
                                                   remaining |-> CleanupDelay])]

\* The cleanup timeout (lines 42-44).
cleanupTimerCallback(x) ==
    [x EXCEPT !.activeToasts[Head(x.cleanupTimers).name] = 0,
              !.cleanupTimers = Tail(@)]

\* handleToggle up to its first await (lines 278-298).
handleToggle(x, extensionName) ==
    IF extensionName \in x.togglingExtensions THEN x
    ELSE LET x1 == showExtensionLoading(
                       [x EXCEPT !.togglingExtensions = @ \cup {extensionName}],
                       extensionName)
         IN [x1 EXCEPT !.toggleCalls =
                Append(@, [name |-> extensionName,
                           toast |-> x1.activeToasts[extensionName],
                           pc |-> "running", success |-> FALSE])]

\* handleToggle after toggleExtension and getExtensions resolved or one of
\* them rejected (lines 306-324).
toggleSettles(x, call, success) ==
    LET x1 == updateExtensionToast(x, x.toggleCalls[call].name, success)
    IN [x1 EXCEPT !.togglingExtensions = @ \ {x.toggleCalls[call].name},
                  !.toggleCalls[call].pc = "finished",
                  !.toggleCalls[call].success = success]

\* The user clicks the switch of an extension.
HandleToggle ==
    \E extensionName \in ToggledExtensions :
        /\ Len(toggleCalls) < MaxToggles
        /\ extensionName \notin togglingExtensions
        /\ CommitExtensionToast(handleToggle(ExtensionToast, extensionName))

\* The backend answers a toggle.
ToggleSettles ==
    \E call \in 1..Len(toggleCalls), success \in BOOLEAN :
        /\ toggleCalls[call].pc = "running"
        /\ CommitExtensionToast(toggleSettles(ExtensionToast, call, success))

\* A cleanup timeout is due.
CleanupTimerFires ==
    /\ cleanupTimers # <<>>
    /\ Head(cleanupTimers).remaining = 0
    /\ CommitExtensionToast(cleanupTimerCallback(ExtensionToast))

\* A timer of a ToastItem is due.
ToastTimerFires ==
    /\ HideTimerFires \/ ExitTimerFires
    /\ UNCHANGED extensionToastVars

\* Nothing of the provider changes with time.
ProviderIdle ==
    /\ hideTimers = {}
    /\ exitTimers = <<>>
    /\ \A k \in 1..Len(toasts) : toasts[k].state = "loading" \/ toasts[k].since >= SinceCap

\* Time passes for the provider's timers and the cleanup timeouts; timers
\* that are due fire first.
ExtensionToastTick ==
    /\ \A k \in 1..Len(cleanupTimers) : cleanupTimers[k].remaining > 0
    /\ \/ ToastTick
       \/ ProviderIdle /\ cleanupTimers # <<>> /\ UNCHANGED toastVars
    /\ cleanupTimers' = [k \in 1..Len(cleanupTimers) |->
                            [cleanupTimers[k] EXCEPT !.remaining = @ - ToastTickMs]]
    /\ UNCHANGED <<activeToasts, togglingExtensions, toggleCalls>>

ExtensionToastInit ==
    /\ activeToasts = [n \in ToggledExtensions |-> 0]
    /\ togglingExtensions = {}
    /\ toggleCalls = <<>>
    /\ cleanupTimers = <<>>

ExtensionToastNext ==
    \/ HandleToggle
    \/ ToggleSettles
    \/ CleanupTimerFires
    \/ ToastTimerFires
    \/ ExtensionToastTick

\* C21 as stated: when a toggle finishes, the loading toast shown for that
\* toggle is displayed with state success or error, also when an earlier
\* toggle of the same extension finished less than 3.5 s before.
C21_LoadingToastResolved ==
    [][\A call \in 1..Len(toggleCalls) :
           (toggleCalls[call].pc = "running" /\ toggleCalls'[call].pc = "finished") =>
               \E k \in 1..Len(toasts') :
                   /\ toasts'[k].id = toggleCalls[call].toast
                   /\ toasts'[k].state \in UpdateStates]_<<toastVars, extensionToastVars>>

(***************************************************************************)
(* Specifications                                                          *)
(***************************************************************************)
Init ==
    /\ ChatInit
    /\ EventsInit
    /\ HighlightInit
    /\ ToastInit
    /\ MentionInit
    /\ FuzzyInit
    /\ ItemsInit
    /\ AgentInit
    /\ ExtensionToastInit

\* The chat input on its own.
SpecChat ==
    /\ extensionsList = <<>>
    /\ fuzzyPattern = <<>> /\ fuzzyText = <<>>
    /\ itemsQuery = <<>> /\ itemsExtensions = 0 /\ itemsFiles = 0
    /\ recipeFromAppConfig = FALSE
    /\ Init
    /\ [][ChatNext /\ UNCHANGED <<eventVars, highlightVars, toastVars,
                          mentionVars, fuzzyVars, itemsVars, agentVars,
                          extensionToastVars>>]_vars

\* The find-event manager and its SearchViews on their own.
SpecEvents ==
    /\ isLoading = FALSE
    /\ extensionsList = <<>>
    /\ fuzzyPattern = <<>> /\ fuzzyText = <<>>
    /\ itemsQuery = <<>> /\ itemsExtensions = 0 /\ itemsFiles = 0
    /\ recipeFromAppConfig = FALSE
    /\ Init
    /\ [][EventsNext /\ UNCHANGED <<chatVars, highlightVars, toastVars,
                          mentionVars, fuzzyVars, itemsVars, agentVars,
                          extensionToastVars>>]_vars

\* The highlight scheduling and navigation of one SearchView on its own.
SpecHighlight ==
    /\ isLoading = FALSE
    /\ extensionsList = <<>>
    /\ fuzzyPattern = <<>> /\ fuzzyText = <<>>
    /\ itemsQuery = <<>> /\ itemsExtensions = 0 /\ itemsFiles = 0
    /\ recipeFromAppConfig = FALSE
    /\ Init
    /\ [][HighlightNext /\ UNCHANGED <<chatVars, eventVars, toastVars,
                          mentionVars, fuzzyVars, itemsVars, agentVars,
                          extensionToastVars>>]_vars

\* The toast provider on its own.
SpecToast ==
    /\ isLoading = FALSE
    /\ extensionsList = <<>>
    /\ fuzzyPattern = <<>> /\ fuzzyText = <<>>
    /\ itemsQuery = <<>> /\ itemsExtensions = 0 /\ itemsFiles = 0
    /\ recipeFromAppConfig = FALSE
    /\ Init
    /\ [][ToastNext /\ UNCHANGED <<chatVars, eventVars, highlightVars,
                          mentionVars, fuzzyVars, itemsVars, agentVars,
                          extensionToastVars>>]_vars

\* Mention detection and the mention popover on their own.
SpecMention ==
    /\ isLoading = FALSE
    /\ fuzzyPattern = <<>> /\ fuzzyText = <<>>
    /\ itemsQuery = <<>> /\ itemsExtensions = 0 /\ itemsFiles = 0
    /\ recipeFromAppConfig = FALSE
    /\ Init
    /\ [][MentionNext /\ UNCHANGED <<chatVars, eventVars, highlightVars,
                          toastVars, fuzzyVars, itemsVars, agentVars,
                          extensionToastVars>>]_vars

\* One call of fuzzyMatch.
SpecFuzzy ==
    /\ isLoading = FALSE
    /\ extensionsList = <<>>
    /\ itemsQuery = <<>> /\ itemsExtensions = 0 /\ itemsFiles = 0
    /\ recipeFromAppConfig = FALSE
    /\ Init
    /\ [][FuzzyNext /\ UNCHANGED <<chatVars, eventVars, highlightVars,
                          toastVars, mentionVars, itemsVars, agentVars,
                          extensionToastVars>>]_vars

\* One computation of filteredItems.
SpecItems ==
    /\ isLoading = FALSE
    /\ extensionsList = <<>>
    /\ fuzzyPattern = <<>> /\ fuzzyText = <<>>
    /\ recipeFromAppConfig = FALSE
    /\ Init
    /\ [][ItemsNext /\ UNCHANGED <<chatVars, eventVars, highlightVars,
                          toastVars, mentionVars, fuzzyVars, agentVars,
                          extensionToastVars>>]_vars

\* useAgent and the Hub on their own.
SpecAgent ==
    /\ isLoading = FALSE
    /\ extensionsList = <<>>
    /\ fuzzyPattern = <<>> /\ fuzzyText = <<>>
    /\ itemsQuery = <<>> /\ itemsExtensions = 0 /\ itemsFiles = 0
    /\ Init
    /\ [][AgentNext /\ UNCHANGED <<chatVars, eventVars, highlightVars,
                          toastVars, mentionVars, fuzzyVars, itemsVars,
                          extensionToastVars>>]_vars

\* The extension toasts of the dropdown and the toast provider they use.
SpecExtensionToast ==
    /\ isLoading = FALSE
    /\ extensionsList = <<>>
    /\ fuzzyPattern = <<>> /\ fuzzyText = <<>>
    /\ itemsQuery = <<>> /\ itemsExtensions = 0 /\ itemsFiles = 0
    /\ recipeFromAppConfig = FALSE
    /\ Init
    /\ [][ExtensionToastNext /\ UNCHANGED <<chatVars, eventVars,
                          highlightVars, mentionVars, fuzzyVars,
                          itemsVars, agentVars>>]_vars

\* The chat input on its own, in a longer session.
SpecChatLong ==
    /\ extensionsList = <<>>
    /\ fuzzyPattern = <<>> /\ fuzzyText = <<>>
    /\ itemsQuery = <<>> /\ itemsExtensions = 0 /\ itemsFiles = 0
    /\ recipeFromAppConfig = FALSE
    /\ Init
    /\ [][LongNext /\ UNCHANGED <<eventVars, highlightVars, toastVars,
                          mentionVars, fuzzyVars, itemsVars, agentVars,
                          extensionToastVars>>]_vars

====
